---------------------------- MODULE Spec2Model ----------------------------
(***************************************************************************)
(* cliplink: the secure connection protocol (typestate handshake, secure   *)
(* packet I/O) of the client (cliplink-cli) and the server                 *)
(* (cliplink-server), over the fixed-size packet codec (cliplink-common)   *)
(* and the crypto layer (cliplink-crypto).                                 *)
(*                                                                         *)
(* Bytes are integers.  0..255 are plain bytes; larger integers stand for  *)
(* bytes of a ciphertext (see Sym): such a byte carries the key and nonce  *)
(* it was produced under and the plain byte it hides, so that decryption   *)
(* is computed from the bytes that arrive, and fails on any byte that was  *)
(* not produced under the right key.                                       *)
(*                                                                         *)
(* Option<T> is a sequence of length 0 (None) or 1 (Some).                 *)
(***************************************************************************)
EXTENDS Integers, Sequences, FiniteSets, Bags, TLC

VARIABLES
    mode,            \* who the two endpoints are (set once, at Init)
    c_id_rsa,        \* client: the key file ~/.ssh/id_rsa (Option of key id)
    c_pc,            \* client: position in handle() of cliplink-cli/main.rs
    c_state,         \* client: typestate of its Connection
    c_aes_key,       \* client: Connection.aes_key
    c_rsa_priv_key,  \* client: Connection.rsa_priv_key
    c_buf,           \* client: buf of handle(), the handshake read buffer
    c_res,           \* client: how the last call ended
    c_clip,          \* client: the clip returned by copy
    c_paste,         \* client: the buf given to paste (set once, at Init)
    s_pc,            \* server: position in the connection's worker
    s_state,         \* server: typestate of its Connection
    s_aes_key,       \* server: Connection.aes_key
    s_rsa_pub_key,   \* server: Connection.rsa_pub_key
    s_buf,           \* server: the handshake read buffer
    s_res,           \* server: how the last call ended
    repo,            \* server: the InMemoryRepository of the session
    s_cmds,          \* server: the packets blocking_handle read, and its answers
    c2s,             \* bytes handed to the socket by the client side, unread
    s2c,             \* bytes handed to the socket by the server side, unread
    f_sent,          \* number of packets the foreign peer has sent
    f_closed,        \* the foreign peer has closed its socket
    log,             \* history of the socket calls of both endpoints
    t_packet,        \* codec: a call of Packet's functions, inputs and Packet
    t_aes,           \* crypto: a call of Aes256's functions, inputs and output
    t_repo,          \* repository: one InMemoryRepository and the calls made on it
    t_sessions,      \* server: two Sessions, each with the repository it owns
    t_main,          \* server: main() of cliplink-server/main.rs and its workers
    t_conns          \* server: two Connections at gen_aes256_key, and the draws

vars == <<mode, c_id_rsa, c_paste, c_pc, c_state, c_aes_key, c_rsa_priv_key, c_buf,
          c_res, c_clip, s_pc, s_state, s_aes_key, s_rsa_pub_key, s_buf,
          s_res, repo, s_cmds, c2s, s2c, f_sent, f_closed, log, t_packet,
          t_aes, t_repo, t_sessions, t_main, t_conns>>

c_vars == <<c_pc, c_state, c_aes_key, c_rsa_priv_key, c_buf, c_res, c_clip>>
s_vars == <<s_pc, s_state, s_aes_key, s_rsa_pub_key, s_buf, s_res, repo, s_cmds>>
\* the calls of the codec and of the crypto layer made outside a connection
o_vars == <<t_repo, t_sessions, t_main, t_conns>>
t_vars == <<t_packet, t_aes, o_vars>>

---------------------------------------------------------------------------
(* Bounds of the model *)

\* Number of packets a foreign peer sends before it goes quiet.
MaxForeignSends == 1

\* Byte counts at which a socket read or write may stop short of the request:
\* inside the type section, inside the payload, and inside the zero padding of a
\* handshake packet.
Cuts == {4, 30, 600}

---------------------------------------------------------------------------
(* cliplink-common/src/packet.rs *)

PACKET_SIZE == 1024
SECTION_TYPE_LEN_OFFSET == 0
SECTION_TYPE_LEN_SIZE == 2
SECTION_TYPE_OFFSET == SECTION_TYPE_LEN_OFFSET + SECTION_TYPE_LEN_SIZE
SECTION_TYPE_SIZE == 24
SECTION_PAYLOAD_LEN_OFFSET == SECTION_TYPE_OFFSET + SECTION_TYPE_SIZE
SECTION_PAYLOAD_LEN_SIZE == 2
SECTION_PAYLOAD_OFFSET == SECTION_PAYLOAD_LEN_OFFSET + SECTION_PAYLOAD_LEN_SIZE
SECTION_PAYLOAD_SIZE == PACKET_SIZE - SECTION_PAYLOAD_OFFSET

\* slice!(buf[offset; size]) = buf[offset..offset+size], 0-based in the source
Slice(buf, offset, size) == SubSeq(buf, offset + 1, offset + size)

\* to_sized_N_byte_slice over an `out` that is not zeroed first
ToSizedDirty(src, n) == [i \in 1..n |-> IF i <= Len(src) THEN src[i] ELSE 255]

\* to_sized_N_byte_slice: the first N bytes of src, zero padded to N
ToSized(src, n) == [i \in 1..n |-> IF i <= Len(src) THEN src[i] ELSE 0]

\* x >> (8 * i)
Shr8(x, i) == IF i = 0 THEN x
              ELSE IF i = 1 THEN x \div 256
              ELSE IF i = 2 THEN x \div 65536
              ELSE IF i = 3 THEN x \div 16777216
              ELSE 0

\* usize::to_be_bytes, the byte order the doc comment of Packet names
ToBeBytes(x) == [i \in 1..8 |-> Shr8(x, 8 - i) % 256]

\* usize::to_le_bytes (8 bytes on a 64-bit target); the lengths of the model
\* stay below 2^31, so bytes 4..7 are zero
ToLeBytes(x) == [i \in 1..8 |-> Shr8(x, i - 1) % 256]

\* usize::from_le_bytes of an 8-byte array
FromLeBytes(b) ==
    b[1] + 256 * (b[2] + 256 * (b[3] + 256 * (b[4] + 256 * (b[5]
         + 256 * (b[6] + 256 * (b[7] + 256 * b[8]))))))

Ok(v) == [ok |-> TRUE, val |-> v]
Err(e) == [ok |-> FALSE, err |-> e]

\* Packet::new: a packet is its buffer of PACKET_SIZE bytes
PacketNew(ty, payload) ==
    ToSized(ToLeBytes(Len(ty)), SECTION_TYPE_LEN_SIZE)
    \o ToSized(ty, SECTION_TYPE_SIZE)
    \o ToSized(ToLeBytes(Len(payload)), SECTION_PAYLOAD_LEN_SIZE)
    \o ToSized(payload, SECTION_PAYLOAD_SIZE)

PacketTyLen(buf) ==
    FromLeBytes(ToSized(Slice(buf, SECTION_TYPE_LEN_OFFSET, SECTION_TYPE_LEN_SIZE), 8))

\* ty() checking the length against the offset of the next section instead of
\* the size of its own
PacketTyLooseCheck(buf) ==
    LET buf_len == PacketTyLen(buf) IN
    IF buf_len > SECTION_PAYLOAD_LEN_OFFSET THEN Err("SectionOverflow")
    ELSE Ok(Slice(buf, SECTION_TYPE_OFFSET, buf_len))

PacketTy(buf) ==
    LET buf_len == PacketTyLen(buf) IN
    IF buf_len > SECTION_TYPE_SIZE THEN Err("SectionOverflow")
    ELSE Ok(Slice(buf, SECTION_TYPE_OFFSET, buf_len))

PacketPayloadLen(buf) ==
    FromLeBytes(ToSized(Slice(buf, SECTION_PAYLOAD_LEN_OFFSET, SECTION_PAYLOAD_LEN_SIZE), 8))

\* payload() returning the whole section, whatever the length field says
PacketPayloadWholeSection(buf) ==
    Ok(Slice(buf, SECTION_PAYLOAD_OFFSET, SECTION_PAYLOAD_SIZE))

PacketPayload(buf) ==
    LET buf_len == PacketPayloadLen(buf) IN
    IF buf_len > SECTION_PAYLOAD_SIZE THEN Err("SectionOverflow")
    ELSE IF SECTION_PAYLOAD_OFFSET + buf_len > PACKET_SIZE THEN Err("BufferOverflow")
    ELSE Ok(Slice(buf, SECTION_PAYLOAD_OFFSET, buf_len))

\* Packet::from_bytes / as_bytes copy the buffer
PacketFromBytes(buf) == buf
PacketAsBytes(packet) == packet

\* The type tags, as the bytes of the literals b"..."
TySshSyn == <<115, 115, 104, 115, 121, 110>>
TySshSynAck == <<115, 115, 104, 115, 121, 110, 97, 99, 107>>
TySshSynDeny == <<115, 115, 104, 115, 121, 110, 100, 101, 110, 121>>
TyCopy == <<99, 111, 112, 121>>
TyCopyAck == <<99, 111, 112, 121, 97, 99, 107>>
TyPaste == <<112, 97, 115, 116, 101>>
TyPasteAck == <<112, 97, 115, 116, 101, 97, 99, 107>>
TyTerm == <<116, 101, 114, 109>>
\* a tag outside the protocol: b"ping"
TyOther == <<112, 105, 110, 103>>

---------------------------------------------------------------------------
(* cliplink-crypto: bytes of ciphertexts *)

\* A ciphertext byte made under `key` (and `nonce`) hiding plain byte b.
\* kind: 0 RSA data, 1 RSA padding, 2 AES-GCM data, 3 AES-GCM tag.
Sym(kind, key, nonce, b) == 256 + b + 256 * (nonce + 4 * (key + 8 * kind))
IsSym(x) == x >= 256
SymByte(x) == x % 256
SymNonce(x) == ((x - 256) \div 256) % 4
SymKey(x) == ((x - 256) \div 1024) % 8
SymKind(x) == (x - 256) \div 8192

---------------------------------------------------------------------------
(* cliplink-crypto/src/rsa.rs *)

\* RSA keypairs are numbered; the number stands for the key material.
\* Key 1 and key 2 are 2048-bit keys, key 3 is a 1024-bit key.
RsaKeyIds == {1, 2, 3}
RsaBits(k) == IF k = 3 THEN 1024 ELSE 2048
\* RsaPrivateKey::size / RsaPublicKey::size: the modulus in bytes
RsaSize(k) == RsaBits(k) \div 8

\* "ssh-rsa" and "ssh-ed25519", the algorithm names of the OpenSSH encoding
AlgSshRsa == <<115, 115, 104, 45, 114, 115, 97>>
AlgSshEd25519 == <<115, 115, 104, 45, 101, 100, 50, 53, 53, 49, 57>>

\* RsaPubKey::to_openssh(None): "<algorithm> <base64 of the key>"; the base64
\* part is one byte that names the key, 'A' + k.
ToOpenssh(k) == AlgSshRsa \o <<32, 65 + k>>
\* An OpenSSH public key of another algorithm, and text that is no key
OpensshEd25519 == AlgSshEd25519 \o <<32, 65>>
OpensshGarbage == <<104, 101, 108, 108, 111>>

\* RsaPubKey::from_openssh: utf-8, then ssh_key's parser ("<algorithm> <key>"
\* or "<algorithm> <key> <comment>"), then the RSA arm
RsaPubKeyFromOpenssh(pub_key) ==
    IF \E i \in 1..Len(pub_key) : pub_key[i] > 127 THEN Err("Utf8Error")
    ELSE IF Len(pub_key) >= Len(AlgSshRsa) + 2
            /\ SubSeq(pub_key, 1, Len(AlgSshRsa)) = AlgSshRsa
            /\ pub_key[Len(AlgSshRsa) + 1] = 32
            /\ (pub_key[Len(AlgSshRsa) + 2] - 65) \in RsaKeyIds
            /\ (Len(pub_key) > Len(AlgSshRsa) + 2 => pub_key[Len(AlgSshRsa) + 3] = 32)
         THEN Ok(pub_key[Len(AlgSshRsa) + 2] - 65)
    ELSE IF pub_key = OpensshEd25519 THEN Err("KeyNotSupported")
    ELSE Err("SshKeyError")

\* RsaPrivKey::from_openssh on the key file of key k: the 2048-bit check
RsaPrivKeyFromOpenssh(k) ==
    IF RsaSize(k) * 8 >= 2048 THEN Ok(k) ELSE Err("MinimumKeySize2048")

\* RsaPrivKey::default: reads ~/.ssh/id_rsa; panics when the file is missing
\* (expect / panic!) or does not load (unwrap)
RsaPrivKeyDefault(file) ==
    IF file = <<>> THEN Err("panic")
    ELSE IF ~RsaPrivKeyFromOpenssh(file[1]).ok THEN Err("panic")
    ELSE Ok(file[1])

\* encrypt_pkcs1v15 that hands back the bytes it was given
EncryptPkcs1v15Plain(k, buf) == Ok(buf)

\* RsaPubKey::encrypt_pkcs1v15: a ciphertext as long as the modulus; PKCS#1
\* v1.5 needs 11 bytes of padding
EncryptPkcs1v15(k, buf) ==
    IF Len(buf) + 11 > RsaSize(k) THEN Err("RsaError")
    ELSE Ok([i \in 1..RsaSize(k) |->
                IF i <= Len(buf) THEN Sym(0, k, 0, buf[i]) ELSE Sym(1, k, 0, 0)])

\* The message bytes of an RSA ciphertext: its leading data bytes
RsaDataLen(buf) ==
    Cardinality({i \in 1..Len(buf) : IsSym(buf[i]) /\ SymKind(buf[i]) = 0})

\* RsaPrivKey::decrypt_pkcs1v15: fails unless every byte was made under the
\* public key of k, data bytes first, then padding
DecryptPkcs1v15(k, buf) ==
    LET n == RsaDataLen(buf) IN
    IF /\ Len(buf) = RsaSize(k)
       /\ \A i \in 1..Len(buf) :
            /\ IsSym(buf[i])
            /\ SymKey(buf[i]) = k
            /\ SymKind(buf[i]) = (IF i <= n THEN 0 ELSE 1)
    THEN Ok([i \in 1..n |-> SymByte(buf[i])])
    ELSE Err("RsaError")

---------------------------------------------------------------------------
(* cliplink-crypto/src/aes.rs *)

AES_256_SIZE == 32
NONCE_SIZE == 12
GCM_AUTHENTICATION_TAG_SIZE == 16

\* What OsRng can return for a key and for a nonce: every byte equal to the id
AesKeyIds == {1, 2}
NonceIds == {1, 2}
AesKeyBytes(a) == [i \in 1..AES_256_SIZE |-> a]
NonceBytes(n) == [i \in 1..NONCE_SIZE |-> n]

\* Aes256::as_bytes
AesAsBytes(key) == key

\* Aes256::try_from that loses the bytes it was given
AesTryFromZeroed(bytes) == Ok([i \in 1..AES_256_SIZE |-> 0])

\* Aes256::try_from([u8; 32]): any 32 bytes are a key
AesTryFrom(bytes) == Ok(bytes)

\* What GHASH folds into byte j of the tag: here the sum (as the size of a
\* bag) of the bytes at the places j, j + 16, j + 32, ... of the first n
\* bytes of the text, so that a change of any one byte of the text changes
\* the tag.  A ciphertext byte counts as the plain byte it hides.
GcmLane(buf, j, n) ==
    BagCardinality([k \in 0..((n - j) \div GCM_AUTHENTICATION_TAG_SIZE) |->
                       SymByte(buf[j + GCM_AUTHENTICATION_TAG_SIZE * k]) + 1]) % 256

\* AES-GCM under key bytes `key` with the 12-byte `nonce`: the ciphertext of
\* buf followed by the 16-byte tag
GcmEncrypt(key, nonce, buf) ==
    [i \in 1..(Len(buf) + GCM_AUTHENTICATION_TAG_SIZE) |->
        IF i <= Len(buf) THEN Sym(2, key[1], nonce[1], buf[i])
        ELSE Sym(3, key[1], nonce[1], GcmLane(buf, i - Len(buf), Len(buf)))]

\* Aes256::encrypt that encrypts before OsRng has filled the nonce it returns
AesEncryptStaleNonce(key, n, buf) ==
    Ok(<<NonceBytes(n), GcmEncrypt(key, [i \in 1..NONCE_SIZE |-> 0], buf)>>)

\* Aes256::encrypt that uses one fixed nonce instead of the bytes OsRng gave
AesEncryptFixedNonce(key, n, buf) ==
    LET nonce == NonceBytes(1) IN Ok(<<nonce, GcmEncrypt(key, nonce, buf)>>)

\* Aes256::encrypt with the nonce OsRng returned: (nonce, ciphertext || tag)
AesEncrypt(key, n, buf) ==
    LET nonce == NonceBytes(n)
        enc_buf == GcmEncrypt(key, nonce, buf)
    IN  IF Len(enc_buf) # Len(buf) + GCM_AUTHENTICATION_TAG_SIZE
        THEN Err("EncryptedOutputLength")
        ELSE Ok(<<nonce, enc_buf>>)

\* Aes256::decrypt that returns the text without verifying the tag
AesDecryptUnverified(key, nonce, buf) ==
    LET n == Len(buf) - GCM_AUTHENTICATION_TAG_SIZE IN
    IF n >= 0 /\ \A i \in 1..n : IsSym(buf[i])
    THEN Ok([i \in 1..n |-> SymByte(buf[i])])
    ELSE Err("AesGcmError")

\* Aes256::decrypt: authentication fails unless every byte was made under
\* this key and this nonce, and the tag in the last 16 bytes is the tag of
\* the text
AesDecrypt(key, nonce, buf) ==
    LET n == Len(buf) - GCM_AUTHENTICATION_TAG_SIZE IN
    IF /\ n >= 0
       /\ \A i \in 1..NONCE_SIZE : nonce[i] = nonce[1]
       /\ \A i \in 1..Len(buf) :
            /\ IsSym(buf[i])
            /\ SymKey(buf[i]) = key[1]
            /\ SymNonce(buf[i]) = nonce[1]
            /\ SymKind(buf[i]) = (IF i <= n THEN 2 ELSE 3)
       /\ \A j \in 1..GCM_AUTHENTICATION_TAG_SIZE :
            SymByte(buf[n + j]) = GcmLane(buf, j, n)
    THEN Ok([i \in 1..n |-> SymByte(buf[i])])
    ELSE Err("AesGcmError")

---------------------------------------------------------------------------
(* The TCP stream, as std::io::Read / Write see it *)

Min(a, b) == IF a < b THEN a ELSE b

\* TcpStream::write(buf): Ok(n) with some n <= len bytes taken, or Err
WriteLens(len) == {len} \cup {c \in Cuts : c < len}
WriteOutcomes(len) ==
    {[ok |-> TRUE, n |-> n] : n \in WriteLens(len)} \cup {[ok |-> FALSE, n |-> 0]}

\* (ReadOutcomesBlockedAtEnd is a read that never returns at end of stream.)
\* TcpStream::read(buf) on a blocking socket: Ok(n) with the bytes that have
\* arrived so far (at least one, at most the buffer), Ok(0) at end of stream,
\* or Err.  Without data and with the peer still open, only Err can happen.
ReadLens(avail, n) ==
    LET m == Min(avail, n) IN {m} \cup {c \in Cuts : c < m}
ReadOutcomesBlockedAtEnd(flight, n, peer_closed) ==
    IF flight = <<>> /\ peer_closed THEN {}
    ELSE (IF flight # <<>>
          THEN {[ok |-> TRUE, n |-> k] : k \in ReadLens(Len(flight), n)} ELSE {})
         \cup {[ok |-> FALSE, n |-> 0]}

ReadOutcomes(flight, n, peer_closed) ==
    (IF flight # <<>> THEN {[ok |-> TRUE, n |-> k] : k \in ReadLens(Len(flight), n)}
     ELSE IF peer_closed THEN {[ok |-> TRUE, n |-> 0]}
     ELSE {})
    \cup {[ok |-> FALSE, n |-> 0]}

\* The first k bytes of the stream, and what follows them
Taken(flight, k) == SubSeq(flight, 1, k)
Rest(flight, k) == SubSeq(flight, k + 1, Len(flight))

\* read_bytes after Ok(buf_len): buf[buf_len..].fill(0)
FilledBuf(flight, k, n) == ToSized(Taken(flight, k), n)

---------------------------------------------------------------------------
(* Results and the history *)

Res(call, out, err) == [call |-> call, out |-> out, err |-> err]
NoRes == Res("none", "Ok", "")

\* One socket call of an endpoint.  n is the byte count of Ok(n), -1 for Err.
Ev(side, op, sec, ty, req, w, state) ==
    [side |-> side, op |-> op, sec |-> sec, ty |-> ty, req |-> req,
     n |-> IF w.ok THEN w.n ELSE 0 - 1, state |-> state]

Ended == {"done", "failed", "panicked"}
ClientRuns == mode \in {"honest", "foreign_server"}
ServerRuns == mode \in {"honest", "foreign_client"}
\* The socket of a side is closed when its Connection was dropped
ClientSideClosed == IF ClientRuns THEN c_pc \in Ended ELSE f_closed
ServerSideClosed == IF ServerRuns THEN s_pc \in Ended ELSE f_closed

---------------------------------------------------------------------------
(* Connection<Secure>::write_packet_sec / read_packet_sec, both sides *)

SEC_UNIT_SIZE == NONCE_SIZE + PACKET_SIZE + GCM_AUTHENTICATION_TAG_SIZE

\* write_packet_sec that hands only enc_buf to write_bytes
SecUnitNoNonce(aes_key, n, packet) ==
    LET enc == AesEncrypt(aes_key, n, PacketAsBytes(packet)) IN
    IF ~enc.ok THEN enc ELSE Ok(enc.val[2])

\* write_packet_sec up to the write: nonce || ciphertext || tag
SecUnit(aes_key, n, packet) ==
    LET enc == AesEncrypt(aes_key, n, PacketAsBytes(packet)) IN
    IF ~enc.ok THEN enc ELSE Ok(enc.val[1] \o enc.val[2])

\* read_packet_sec after the read: split the nonce off, decrypt, copy into
\* [u8; PACKET_SIZE] (copy_from_slice panics on another length)
SecDecode(aes_key, buf) ==
    LET nonce == SubSeq(buf, 1, NONCE_SIZE)
        dec == AesDecrypt(aes_key, nonce, SubSeq(buf, NONCE_SIZE + 1, Len(buf)))
    IN  IF ~dec.ok THEN Res("read_packet_sec", "Err", "Aes")
        ELSE IF Len(dec.val) # PACKET_SIZE
             THEN Res("read_packet_sec", "panic", "copy_from_slice")
        ELSE [call |-> "read_packet_sec", out |-> "Ok", err |-> "",
              packet |-> PacketFromBytes(dec.val)]

---------------------------------------------------------------------------
(* cliplink-cli/src/conn.rs, session.rs and handle() of main.rs *)

\* impl TryFrom<&Packet> for Input (client)
ClientInputTryFrom(packet) ==
    LET ty == PacketTy(packet) IN
    IF ~ty.ok THEN [out |-> "Err", err |-> ty.err]
    ELSE IF ty.val = TySshSynAck
         THEN LET pl == PacketPayload(packet) IN
              IF ~pl.ok THEN [out |-> "Err", err |-> pl.err]
              ELSE [out |-> "Ok", input |-> "SshHandshakeAck", pl |-> pl.val]
    ELSE IF ty.val = TySshSynDeny
         THEN [out |-> "Ok", input |-> "SshHandshakeDeny", pl |-> <<>>]
    ELSE [out |-> "panic", err |-> "unimplemented"]

\* impl From<&Output> for Packet (client): Output::SshHandshake(pl)
ClientOutputPacket(pl) == PacketNew(TySshSyn, pl)

\* send_ssh_key handing out a Connection<Secure>
ClientSendSshKeySecure == "Secure"
\* The typestates the client's transitions mutate::<N>() into
ClientSendSshKeyNext == "HandshakeAck"
ClientParseAes256KeyNext == "Secure"

\* A denied client that reads the socket again instead of returning
ClientDenyRetries == "read_bytes"

\* parse_aes256_key on Input::SshHandshakeDeny: return Err(UnsupportedKeyType),
\* which handle() propagates with `?`
ClientDenyPc == "failed"

\* b"xungoro", the clip handle() pastes
Xungoro == <<120, 117, 110, 103, 111, 114, 111>>

\* The buf of paste, held as its first bytes and the number of bytes b"x"
\* that follow them
HandlePaste == [head |-> Xungoro, more |-> 0]
PasteLen(p) == Len(p.head) + p.more
PasteBuf(p) == p.head \o [i \in 1..p.more |-> 120]

ClientFinish(call, out, err) ==
    /\ c_pc' = (IF out = "panic" THEN "panicked" ELSE "failed")
    /\ c_res' = Res(call, out, err)

\* Connection<Handshake>::send_ssh_key
ClientSendSshKey ==
    /\ ClientRuns /\ c_pc = "send_ssh_key" /\ c_state = "Handshake"
    /\ LET key == RsaPrivKeyDefault(c_id_rsa) IN
       IF ~key.ok
       THEN /\ ClientFinish("send_ssh_key", "panic", "id_rsa")
            /\ UNCHANGED <<c_state, c_rsa_priv_key, c2s, log>>
       ELSE LET packet == ClientOutputPacket(ToOpenssh(key.val)) IN
            \E w \in WriteOutcomes(PACKET_SIZE) :
               /\ log' = Append(log, Ev("c", "write", FALSE, PacketTy(packet).val,
                                        PACKET_SIZE, w, c_state))
               /\ IF w.ok
                  THEN /\ c2s' = c2s \o Taken(PacketAsBytes(packet), w.n)
                       /\ c_rsa_priv_key' = <<key.val>>
                       /\ c_state' = ClientSendSshKeyNext
                       /\ c_pc' = "read_bytes"
                       /\ c_res' = Res("send_ssh_key", "Ok", "")
                  ELSE /\ ClientFinish("send_ssh_key", "Err", "IOError")
                       /\ UNCHANGED <<c_state, c_rsa_priv_key, c2s>>
    /\ UNCHANGED <<mode, c_id_rsa, c_paste, t_vars, c_aes_key, c_buf, c_clip, s_vars, s2c,
                   f_sent, f_closed>>

\* handle(): conn.read_bytes(&mut buf).unwrap(), the handshake reply
ClientReadBytes ==
    /\ ClientRuns /\ c_pc = "read_bytes"
    /\ \E r \in ReadOutcomes(s2c, PACKET_SIZE, ServerSideClosed) :
          /\ log' = Append(log, Ev("c", "read", FALSE, <<>>, PACKET_SIZE, r, c_state))
          /\ IF r.ok
             THEN /\ c_buf' = FilledBuf(s2c, r.n, PACKET_SIZE)
                  /\ s2c' = Rest(s2c, r.n)
                  /\ c_pc' = "parse_aes256_key"
                  /\ c_res' = Res("read_bytes", "Ok", "")
             ELSE /\ ClientFinish("read_bytes", "panic", "IOError")
                  /\ UNCHANGED <<c_buf, s2c>>
    /\ UNCHANGED <<mode, c_id_rsa, c_paste, t_vars, c_state, c_aes_key, c_rsa_priv_key, c_clip,
                   s_vars, c2s, f_sent, f_closed>>

\* Connection<HandshakeAck>::parse_aes256_key(&Packet::from_bytes(&buf))
ClientParseAes256Key ==
    /\ ClientRuns /\ c_pc = "parse_aes256_key" /\ c_state = "HandshakeAck"
    /\ LET input == ClientInputTryFrom(PacketFromBytes(c_buf)) IN
       IF input.out # "Ok"
       THEN /\ ClientFinish("parse_aes256_key", input.out, input.err)
            /\ UNCHANGED <<c_state, c_aes_key>>
       ELSE IF input.input # "SshHandshakeAck"
       THEN /\ c_pc' = ClientDenyPc
            /\ c_res' = Res("parse_aes256_key", "Err", "UnsupportedKeyType")
            /\ UNCHANGED <<c_state, c_aes_key>>
       ELSE IF c_rsa_priv_key = <<>>
       THEN /\ ClientFinish("parse_aes256_key", "panic", "no rsa key available")
            /\ UNCHANGED <<c_state, c_aes_key>>
       ELSE LET dec == DecryptPkcs1v15(c_rsa_priv_key[1], input.pl) IN
            IF ~dec.ok
            THEN /\ ClientFinish("parse_aes256_key", "Err", "RsaError")
                 /\ UNCHANGED <<c_state, c_aes_key>>
            ELSE IF Len(dec.val) > AES_256_SIZE
            THEN /\ ClientFinish("parse_aes256_key", "panic", "aes256 incompatible")
                 /\ UNCHANGED <<c_state, c_aes_key>>
            ELSE IF Len(dec.val) # AES_256_SIZE
            THEN /\ ClientFinish("parse_aes256_key", "panic", "copy_from_slice")
                 /\ UNCHANGED <<c_state, c_aes_key>>
            ELSE /\ c_aes_key' = <<AesTryFrom(dec.val).val>>
                 /\ c_state' = ClientParseAes256KeyNext
                 /\ c_pc' = "paste"
                 /\ c_res' = Res("parse_aes256_key", "Ok", "")
    /\ UNCHANGED <<mode, c_id_rsa, c_paste, t_vars, c_rsa_priv_key, c_buf, c_clip, s_vars, c2s,
                   s2c, f_sent, f_closed, log>>

\* impl Connection<Secure> (client): the methods exist in this typestate only
ClientIsSecure == c_state = "Secure"

\* The write half of Session::paste and Session::copy: write_packet_sec
ClientWriteSec(pc, call, ty, payload, next) ==
    /\ ClientRuns /\ c_pc = pc /\ ClientIsSecure
    /\ IF c_aes_key = <<>>
       THEN /\ ClientFinish(call, "panic", "no aes key available")
            /\ UNCHANGED <<c2s, log>>
       ELSE \E n \in NonceIds :
            LET unit == SecUnit(c_aes_key[1], n, PacketNew(ty, payload)) IN
            \E w \in WriteOutcomes(SEC_UNIT_SIZE) :
            IF ~unit.ok
            THEN /\ ClientFinish(call, "Err", unit.err)
                 /\ UNCHANGED <<c2s, log>>
            ELSE /\ log' = Append(log, Ev("c", "write", TRUE, ty, Len(unit.val),
                                          w, c_state))
                 /\ IF w.ok
                    THEN /\ c2s' = c2s \o Taken(unit.val, w.n)
                         /\ c_pc' = next
                         /\ c_res' = Res(call, "Ok", "")
                    ELSE /\ ClientFinish(call, "Err", "IOError")
                         /\ UNCHANGED c2s
    /\ UNCHANGED <<mode, c_id_rsa, c_paste, t_vars, c_state, c_aes_key, c_rsa_priv_key, c_buf,
                   c_clip, s_vars, s2c, f_sent, f_closed>>

\* str::from_utf8(b).is_ok() for the bytes of b from index i on
RECURSIVE Utf8ValidFrom(_, _)
Utf8ValidFrom(b, i) ==
    LET In(j, lo, hi) == j <= Len(b) /\ b[j] >= lo /\ b[j] <= hi
        x == b[i]
    IN
    IF i > Len(b) THEN TRUE
    ELSE IF x <= 127 THEN Utf8ValidFrom(b, i + 1)
    ELSE IF x >= 194 /\ x <= 223
         THEN In(i + 1, 128, 191) /\ Utf8ValidFrom(b, i + 2)
    ELSE IF x >= 224 /\ x <= 239
         THEN /\ In(i + 1, IF x = 224 THEN 160 ELSE 128, IF x = 237 THEN 159 ELSE 191)
              /\ In(i + 2, 128, 191)
              /\ Utf8ValidFrom(b, i + 3)
    ELSE IF x >= 240 /\ x <= 244
         THEN /\ In(i + 1, IF x = 240 THEN 144 ELSE 128, IF x = 244 THEN 143 ELSE 191)
              /\ In(i + 2, 128, 191)
              /\ In(i + 3, 128, 191)
              /\ Utf8ValidFrom(b, i + 4)
    ELSE FALSE

\* String::from_utf8_lossy(ty): a replacement character for every bad byte
FromUtf8Lossy(ty) == [i \in 1..Len(ty) |-> IF ty[i] <= 127 THEN ty[i] ELSE 63]

\* str::from_utf8(ty).unwrap_or_default().to_string()
FromUtf8OrDefault(ty) == IF Utf8ValidFrom(ty, 1) THEN ty ELSE <<>>

\* a match whose arm takes the ack of either call
ClientIsAnyAck(ty, ack) == ty \in {TyCopyAck, TyPasteAck}

\* match packet.ty()? { b"copyack" => .. } in copy, b"pasteack" in paste
ClientIsAck(ty, ack) == ty = ack

\* SessionError::WrongResponse(str::from_utf8(ty).unwrap_or_default().to_string())
WrongResponse(call, ty) ==
    [call |-> call, out |-> "Err", err |-> "WrongResponse",
     tag |-> FromUtf8OrDefault(ty)]

\* The read half of Session::paste and Session::copy: read_packet_sec, then
\* the match on the reply's type.  copy returns the payload, which handle()
\* prints with String::from_utf8(clip).expect(..)
ClientReadSec(pc, call, ack, next) ==
    /\ ClientRuns /\ c_pc = pc /\ ClientIsSecure
    /\ \E r \in ReadOutcomes(s2c, SEC_UNIT_SIZE, ServerSideClosed) :
          /\ log' = Append(log, Ev("c", "read", TRUE, <<>>, SEC_UNIT_SIZE, r, c_state))
          /\ IF ~r.ok
             THEN /\ ClientFinish(call, "panic", "IOError")
                  /\ UNCHANGED <<s2c, c_clip>>
             ELSE /\ s2c' = Rest(s2c, r.n)
                  /\ IF c_aes_key = <<>>
                     THEN /\ ClientFinish(call, "panic", "no aes key available")
                          /\ UNCHANGED c_clip
                     ELSE LET got == SecDecode(c_aes_key[1],
                                               FilledBuf(s2c, r.n, SEC_UNIT_SIZE))
                              ty == PacketTy(got.packet)
                              pl == PacketPayload(got.packet)
                          IN
                          IF got.out # "Ok"
                          THEN /\ ClientFinish(call, got.out, got.err)
                               /\ UNCHANGED c_clip
                          ELSE IF ~ty.ok
                          THEN /\ ClientFinish(call, "Err", ty.err)
                               /\ UNCHANGED c_clip
                          ELSE IF ~ClientIsAck(ty.val, ack)
                          THEN /\ c_pc' = "failed"
                               /\ c_res' = WrongResponse(call, ty.val)
                               /\ UNCHANGED c_clip
                          ELSE IF ack # TyCopyAck
                          THEN /\ c_pc' = next
                               /\ c_res' = Res(call, "Ok", "")
                               /\ UNCHANGED c_clip
                          ELSE IF ~pl.ok
                          THEN /\ ClientFinish(call, "Err", pl.err)
                               /\ UNCHANGED c_clip
                          ELSE IF \E i \in 1..Len(pl.val) : pl.val[i] > 127
                          THEN /\ ClientFinish(call, "panic", "failed to serialize string")
                               /\ c_clip' = <<pl.val>>
                          ELSE /\ c_pc' = next
                               /\ c_res' = Res(call, "Ok", "")
                               /\ c_clip' = <<pl.val>>
    /\ UNCHANGED <<mode, c_id_rsa, c_paste, t_vars, c_state, c_aes_key, c_rsa_priv_key, c_buf,
                   s_vars, c2s, f_sent, f_closed>>

\* Session::paste returning after its write, without reading the reply
ClientPasteWritePipelined ==
    ClientWriteSec("paste", "paste", TyPaste, PasteBuf(c_paste), "copy")
\* Session::paste(None, buf); handle() gives it b"xungoro".to_vec()
ClientPasteWrite ==
    ClientWriteSec("paste", "paste", TyPaste, PasteBuf(c_paste), "paste_read")
ClientPasteRead == ClientReadSec("paste_read", "paste", TyPasteAck, "copy")
\* Session::copy(None)
ClientCopyWrite == ClientWriteSec("copy", "copy", TyCopy, <<>>, "copy_read")
ClientCopyRead == ClientReadSec("copy_read", "copy", TyCopyAck, "done")

---------------------------------------------------------------------------
(* cliplink-server/src/repository.rs *)

DEFAULT_CLIP == "default"

\* a clip name that stands for itself, the absent one for the empty name
ClipNameAsGiven(clip) == IF clip = <<>> THEN "" ELSE clip[1]

\* Option<&String>::unwrap_or(&DEFAULT_CLIP)
ClipName(clip) == IF clip = <<>> THEN DEFAULT_CLIP ELSE clip[1]

\* The repository is a function from identities to functions from clip names
\* to payloads, as HashMap<String, HashMap<String, T>>.
\* get answering a missing clip with an empty payload
RepoGetOrEmpty(r, id, clip) ==
    IF id \in DOMAIN r /\ ClipName(clip) \in DOMAIN r[id]
    THEN Ok(r[id][ClipName(clip)]) ELSE Ok(<<>>)

\* get that returns the clip whoever stored it
RepoGetOfAnyone(r, id, clip) ==
    IF \E i \in DOMAIN r : ClipName(clip) \in DOMAIN r[i]
    THEN Ok(r[CHOOSE i \in DOMAIN r : ClipName(clip) \in DOMAIN r[i]][ClipName(clip)])
    ELSE Err("NotFound")

RepoGet(r, id, clip) ==
    IF id \notin DOMAIN r THEN Err("NotFound")
    ELSE IF ClipName(clip) \notin DOMAIN r[id] THEN Err("NotFound")
    ELSE Ok(r[id][ClipName(clip)])

\* patch that replaces the clips of the identity by the one stored
RepoPatchAlone(r, id, clip, payload) ==
    [i \in DOMAIN r \cup {id} |->
        IF i = id THEN [c \in {ClipName(clip)} |-> payload] ELSE r[i]]

\* patch that keeps the payload a clip already holds
RepoPatchKeepsOld(r, id, clip, payload) ==
    IF id \in DOMAIN r /\ ClipName(clip) \in DOMAIN r[id] THEN r
    ELSE [i \in DOMAIN r \cup {id} |->
             IF i = id THEN [c \in {ClipName(clip)} |-> payload] ELSE r[i]]

RepoPatch(r, id, clip, payload) ==
    LET store == IF id \in DOMAIN r THEN r[id] ELSE <<>>
        clip_store == [c \in DOMAIN store \cup {ClipName(clip)} |->
                          IF c = ClipName(clip) THEN payload ELSE store[c]]
    IN  [i \in DOMAIN r \cup {id} |-> IF i = id THEN clip_store ELSE r[i]]

---------------------------------------------------------------------------
(* cliplink-server/src/conn.rs and session.rs.  The worker of a connection   *)
(* reads one handshake packet, then calls validate_ssh_key, gen_aes256_key   *)
(* and Session::blocking_handle, each as soon as the typestate offers it.    *)

\* impl TryFrom<&Packet> for Input (server)
ServerInputTryFrom(packet) ==
    LET ty == PacketTy(packet) IN
    IF ~ty.ok THEN [out |-> "Err", err |-> ty.err]
    ELSE IF ty.val = TySshSyn
         THEN LET pl == PacketPayload(packet) IN
              IF ~pl.ok THEN [out |-> "Err", err |-> pl.err]
              ELSE [out |-> "Ok", input |-> "SshHandshake", pl |-> pl.val]
    ELSE [out |-> "panic", err |-> "unimplemented"]

\* From<&Output> with the two type tags exchanged
ServerOutputPacketSwapped(output, pl) ==
    IF output = "SshHandshakeAck" THEN PacketNew(TySshSynDeny, pl)
    ELSE PacketNew(TySshSynAck, pl)

\* impl From<&Output> for Packet (server)
ServerOutputPacket(output, pl) ==
    IF output = "SshHandshakeAck" THEN PacketNew(TySshSynAck, pl)
    ELSE PacketNew(TySshSynDeny, pl)

\* validate_ssh_key mutating straight into Secure
ServerValidateSshKeySkipsAck == "Secure"

\* The typestates the server's transitions mutate::<N>() into
ServerValidateSshKeyNext == "HandshakeAck"
ServerGenAes256KeyNext == "Secure"

ServerFinish(call, out, err) ==
    /\ s_pc' = (IF out = "panic" THEN "panicked" ELSE "failed")
    /\ s_res' = Res(call, out, err)

\* Connection::read_bytes into a PACKET_SIZE buffer: the handshake packet
ServerReadBytes ==
    /\ ServerRuns /\ s_pc = "running" /\ s_state = "Handshake" /\ s_buf = <<>>
    /\ \E r \in ReadOutcomes(c2s, PACKET_SIZE, ClientSideClosed) :
          /\ log' = Append(log, Ev("s", "read", FALSE, <<>>, PACKET_SIZE, r, s_state))
          /\ IF r.ok
             THEN /\ s_buf' = <<FilledBuf(c2s, r.n, PACKET_SIZE)>>
                  /\ c2s' = Rest(c2s, r.n)
                  /\ s_res' = Res("read_bytes", "Ok", "")
                  /\ UNCHANGED s_pc
             ELSE /\ ServerFinish("read_bytes", "panic", "IOError")
                  /\ UNCHANGED <<s_buf, c2s>>
    /\ UNCHANGED <<mode, c_id_rsa, c_paste, t_vars, c_vars, s_state, s_aes_key, s_rsa_pub_key,
                   repo, s_cmds, s2c, f_sent, f_closed>>

\* Connection<Handshake>::validate_ssh_key(&packet).  Input has one variant, so
\* the else branch of the let-else (the sshsyndeny reply) is never taken.
ServerValidateSshKey ==
    /\ ServerRuns /\ s_pc = "running" /\ s_state = "Handshake" /\ s_buf # <<>>
    /\ LET input == ServerInputTryFrom(PacketFromBytes(s_buf[1])) IN
       IF input.out # "Ok"
       THEN /\ ServerFinish("validate_ssh_key", input.out, input.err)
            /\ UNCHANGED <<s_state, s_rsa_pub_key>>
       ELSE LET key == RsaPubKeyFromOpenssh(input.pl) IN
            IF ~key.ok
            THEN /\ ServerFinish("validate_ssh_key", "Err", key.err)
                 /\ UNCHANGED <<s_state, s_rsa_pub_key>>
            ELSE /\ s_rsa_pub_key' = <<key.val>>
                 /\ s_state' = ServerValidateSshKeyNext
                 /\ s_res' = Res("validate_ssh_key", "Ok", "")
                 /\ UNCHANGED s_pc
    /\ UNCHANGED <<mode, c_id_rsa, c_paste, t_vars, c_vars, s_aes_key, s_buf, repo, s_cmds,
                   c2s, s2c, f_sent, f_closed, log>>

\* Connection<HandshakeAck>::gen_aes256_key
ServerGenAes256Key ==
    /\ ServerRuns /\ s_pc = "running" /\ s_state = "HandshakeAck"
    /\ IF s_rsa_pub_key = <<>>
       THEN /\ ServerFinish("gen_aes256_key", "panic", "no rsa key available")
            /\ UNCHANGED <<s_state, s_aes_key, s2c, log>>
       ELSE \E a \in AesKeyIds, w \in WriteOutcomes(PACKET_SIZE) :
            LET aes_key == AesKeyBytes(a)
                enc == EncryptPkcs1v15(s_rsa_pub_key[1], AesAsBytes(aes_key))
                packet == ServerOutputPacket("SshHandshakeAck", enc.val)
            IN
            IF ~enc.ok
            THEN /\ ServerFinish("gen_aes256_key", "Err", enc.err)
                 /\ UNCHANGED <<s_state, s_aes_key, s2c, log>>
            ELSE /\ log' = Append(log, Ev("s", "write", FALSE, PacketTy(packet).val,
                                          PACKET_SIZE, w, s_state))
                 /\ IF w.ok
                    THEN /\ s2c' = s2c \o Taken(PacketAsBytes(packet), w.n)
                         /\ s_aes_key' = <<aes_key>>
                         /\ s_state' = ServerGenAes256KeyNext
                         /\ s_res' = Res("gen_aes256_key", "Ok", "")
                         /\ UNCHANGED s_pc
                    ELSE /\ ServerFinish("gen_aes256_key", "Err", "IOError")
                         /\ UNCHANGED <<s_state, s_aes_key, s2c>>
    /\ UNCHANGED <<mode, c_id_rsa, c_paste, t_vars, c_vars, s_rsa_pub_key, s_buf, repo,
                   s_cmds, c2s, f_sent, f_closed>>

\* The secure methods offered one typestate too early
ServerIsSecureOrAck == s_state \in {"HandshakeAck", "Secure"}

\* impl Connection<Secure> (server): the methods exist in this typestate only
ServerIsSecure == s_state = "Secure"

\* an id that names the algorithm and not the key
ServerIdOfAlgorithm(rsa_pub_key) == AlgSshRsa

\* Connection<Secure>::id
ServerId(rsa_pub_key) == ToOpenssh(rsa_pub_key)

\* The match of Session::blocking_handle on a packet read: what the arm
\* returns (with the tag a TypeNotSupported carries), the identity it asked
\* id() for, the repository after it, the reply it writes, whether the loop
\* ends
SessionDispatch(r, rsa_pub_key, packet) ==
    LET ty == PacketTy(packet)
        pl == PacketPayload(packet)
        none == [out |-> "Ok", err |-> "", tag |-> <<>>, id |-> <<>>, repo |-> r,
                 reply |-> <<>>, term |-> FALSE]
    IN
    IF ~ty.ok THEN [none EXCEPT !.out = "Err", !.err = ty.err]
    ELSE IF ty.val = TyCopy
    THEN IF rsa_pub_key = <<>>
         THEN [none EXCEPT !.out = "panic", !.err = "no rsa key available"]
         ELSE LET id == ServerId(rsa_pub_key[1])
                  got == RepoGet(r, id, <<>>)
              IN
              IF ~got.ok
              THEN [none EXCEPT !.out = "Err", !.err = "RepositoryError", !.id = <<id>>]
              ELSE [none EXCEPT !.id = <<id>>,
                                !.reply = <<PacketNew(TyCopyAck, got.val)>>]
    ELSE IF ty.val = TyPaste
    THEN IF rsa_pub_key = <<>>
         THEN [none EXCEPT !.out = "panic", !.err = "no rsa key available"]
         ELSE LET id == ServerId(rsa_pub_key[1]) IN
              IF ~pl.ok THEN [none EXCEPT !.out = "Err", !.err = pl.err, !.id = <<id>>]
              ELSE [none EXCEPT
                      !.id = <<id>>,
                      !.repo = RepoPatch(r, id, <<>>, pl.val),
                      !.reply = <<PacketNew(TyPasteAck, <<>>)>>]
    ELSE IF ty.val = TyTerm THEN [none EXCEPT !.term = TRUE]
    ELSE [none EXCEPT !.out = "Err", !.err = "TypeNotSupported",
                      !.tag = FromUtf8OrDefault(ty.val)]

\* What blocking_handle did with one packet read_packet_sec returned: the type
\* and payload the packet decodes to, the outcome of the arm, and the reply
\* with the outcome of its write (none when nothing was written)
Handled(packet, d, wrote) ==
    [ty |-> PacketTy(packet), payload |-> PacketPayload(packet), out |-> d.out,
     err |-> d.err, tag |-> d.tag, id |-> d.id, term |-> d.term,
     reply |-> d.reply, wrote |-> wrote]

\* One turn of the loop of Session::blocking_handle: read_packet_sec, the
\* match, and the write_packet_sec of the reply
ServerBlockingHandle ==
    /\ ServerRuns /\ s_pc = "running" /\ ServerIsSecure
    /\ \E r \in ReadOutcomes(c2s, SEC_UNIT_SIZE, ClientSideClosed) :
       LET rev == Ev("s", "read", TRUE, <<>>, SEC_UNIT_SIZE, r, s_state) IN
       IF ~r.ok
       THEN /\ ServerFinish("blocking_handle", "panic", "IOError")
            /\ log' = Append(log, rev)
            /\ UNCHANGED <<repo, s_cmds, c2s, s2c>>
       ELSE
       /\ c2s' = Rest(c2s, r.n)
       /\ IF s_aes_key = <<>>
          THEN /\ ServerFinish("blocking_handle", "panic", "no aes key available")
               /\ log' = Append(log, rev)
               /\ UNCHANGED <<repo, s_cmds, s2c>>
          ELSE
          LET got == SecDecode(s_aes_key[1], FilledBuf(c2s, r.n, SEC_UNIT_SIZE))
              d == SessionDispatch(repo, s_rsa_pub_key, got.packet)
          IN
          IF got.out # "Ok"
          THEN /\ ServerFinish("blocking_handle", got.out, got.err)
               /\ log' = Append(log, rev)
               /\ UNCHANGED <<repo, s_cmds, s2c>>
          ELSE IF d.out # "Ok"
          THEN /\ ServerFinish("blocking_handle", d.out, d.err)
               /\ s_cmds' = Append(s_cmds, Handled(got.packet, d, <<>>))
               /\ log' = Append(log, rev)
               /\ UNCHANGED <<repo, s2c>>
          ELSE IF d.term
          THEN /\ s_pc' = "done"
               /\ s_res' = Res("blocking_handle", "Ok", "")
               /\ s_cmds' = Append(s_cmds, Handled(got.packet, d, <<>>))
               /\ log' = Append(log, rev)
               /\ UNCHANGED <<repo, s2c>>
          ELSE
          \E n \in NonceIds :
             LET unit == SecUnit(s_aes_key[1], n, d.reply[1]) IN
             \E w \in WriteOutcomes(SEC_UNIT_SIZE) :
             /\ repo' = d.repo
             /\ s_cmds' = Append(s_cmds, Handled(got.packet, d,
                                                 IF unit.ok THEN <<w>> ELSE <<>>))
             /\ IF ~unit.ok
                THEN /\ ServerFinish("blocking_handle", "Err", unit.err)
                     /\ log' = Append(log, rev)
                     /\ UNCHANGED s2c
                ELSE /\ log' = log \o <<rev, Ev("s", "write", TRUE,
                                                PacketTy(d.reply[1]).val,
                                                Len(unit.val), w, s_state)>>
                     /\ IF w.ok
                        THEN /\ s2c' = s2c \o Taken(unit.val, w.n)
                             /\ s_res' = Res("blocking_handle", "Ok", "")
                             /\ UNCHANGED s_pc
                        ELSE /\ ServerFinish("blocking_handle", "Err", "IOError")
                             /\ UNCHANGED s2c
    /\ UNCHANGED <<mode, c_id_rsa, c_paste, t_vars, c_vars, s_state, s_aes_key, s_rsa_pub_key,
                   s_buf, f_sent, f_closed>>

---------------------------------------------------------------------------
(* A foreign peer: any program at the other end of the socket *)

\* "unsupported key type", a reason string
DenyReason == <<117, 110, 115, 117, 112, 112, 111, 114, 116, 101, 100>>

\* What a foreign client may send as its first packet
ForeignClientPackets ==
    { PacketNew(TySshSyn, ToOpenssh(1)),
      PacketNew(TySshSyn, ToOpenssh(3)),
      PacketNew(TySshSyn, OpensshEd25519),
      PacketNew(TySshSyn, OpensshGarbage),
      PacketNew(TyOther, <<>>),
      [i \in 1..PACKET_SIZE |-> 255] }

\* What a foreign server may send to a client that holds RSA key k
ForeignServerPackets(k) ==
    { PacketNew(TySshSynDeny, DenyReason),
      PacketNew(TySshSynAck, EncryptPkcs1v15(k, AesKeyBytes(1)).val),
      PacketNew(TySshSynAck, EncryptPkcs1v15(k, [i \in 1..16 |-> 1]).val),
      PacketNew(TySshSynAck, EncryptPkcs1v15(k, [i \in 1..40 |-> 1]).val),
      PacketNew(TySshSynAck, OpensshGarbage),
      PacketNew(TyOther, <<>>) }

ForeignClientSend ==
    /\ mode = "foreign_client" /\ ~f_closed /\ f_sent < MaxForeignSends
    /\ \E bytes \in ForeignClientPackets : c2s' = c2s \o bytes
    /\ f_sent' = f_sent + 1
    /\ UNCHANGED <<mode, c_id_rsa, c_paste, t_vars, c_vars, s_vars, s2c, f_closed, log>>

ForeignServerSend ==
    /\ mode = "foreign_server" /\ ~f_closed /\ f_sent < MaxForeignSends
    /\ c_rsa_priv_key # <<>>
    /\ \E bytes \in ForeignServerPackets(c_rsa_priv_key[1]) : s2c' = s2c \o bytes
    /\ f_sent' = f_sent + 1
    /\ UNCHANGED <<mode, c_id_rsa, c_paste, t_vars, c_vars, s_vars, c2s, f_closed, log>>

ForeignClose ==
    /\ mode # "honest" /\ ~f_closed
    /\ f_closed' = TRUE
    /\ UNCHANGED <<mode, c_id_rsa, c_paste, t_vars, c_vars, s_vars, c2s, s2c, f_sent, log>>

---------------------------------------------------------------------------
(* The packet codec called on its own, as the tests of packet.rs call it *)

\* The longest type handed to Packet::new: two bytes more than the section
MaxTyLen == 26
\* The lengths of the payloads handed to Packet::new: empty, the 14 bytes and
\* the 14 * 200 bytes of the tests, the capacity and its neighbours
PayloadLens ==
    {0, 14, SECTION_PAYLOAD_SIZE - 1, SECTION_PAYLOAD_SIZE,
     SECTION_PAYLOAD_SIZE + 1, 14 * 200}
\* and lengths that need more than the two bytes of the length field
LongPayloadLens == {65536, 65536 + 14}
\* Payload byte i is (i * fill) % 256: all zero, or a pattern with zero bytes
PayloadFills == {0, 7}
\* The values of a length field of a buffer that did not come from Packet::new
LenFields == {0, 1, 24, 25, 255, 256, 996, 997, 1022, 65535}

TyBytes(n) == [i \in 1..n |-> 97 + (i % 26)]
PayloadBytes(n, fill) == [i \in 1..n |-> (i * fill) % 256]

\* A PACKET_SIZE-byte buffer with the given length fields around other bytes
RawBuf(ty_len, payload_len) ==
    [i \in 1..PACKET_SIZE |->
        IF i = SECTION_TYPE_LEN_OFFSET + 1 THEN ty_len % 256
        ELSE IF i = SECTION_TYPE_LEN_OFFSET + 2 THEN ty_len \div 256
        ELSE IF i = SECTION_PAYLOAD_LEN_OFFSET + 1 THEN payload_len % 256
        ELSE IF i = SECTION_PAYLOAD_LEN_OFFSET + 2 THEN payload_len \div 256
        ELSE 1 + (i % 255)]

\* No call of the codec
NoPacketCall ==
    [op |-> "none", src |-> "none", ty |-> <<>>,
     payload |-> [len |-> 0, fill |-> 0], buf |-> <<>>]

\* The arguments of a call: (ty, payload) for Packet::new, the payload held as
\* its length and fill, or the bytes of a buffer for Packet::from_bytes
PacketCalls ==
    {[op |-> "args", src |-> "args", ty |-> TyBytes(n),
      payload |-> [len |-> m, fill |-> fill], buf |-> <<>>] :
        n \in 0..MaxTyLen, m \in PayloadLens, fill \in PayloadFills}
    \cup
    {[op |-> "args", src |-> "args", ty |-> TySshSyn,
      payload |-> [len |-> m, fill |-> 7], buf |-> <<>>] : m \in LongPayloadLens}
    \cup
    {[op |-> "args", src |-> "bytes", ty |-> <<>>,
      payload |-> [len |-> 0, fill |-> 0],
      buf |-> RawBuf(a, b)] : a \in LenFields, b \in LenFields}

\* payload: &[u8], the bytes handed to Packet::new
ArgPayload == PayloadBytes(t_packet.payload.len, t_packet.payload.fill)

\* let packet = Packet::new(ty, payload): new returns Self, never an error
PacketNewCall ==
    /\ t_packet.op = "args" /\ t_packet.src = "args"
    /\ t_packet' = [t_packet EXCEPT
                      !.op = "new",
                      !.buf = PacketNew(t_packet.ty, ArgPayload)]
    /\ UNCHANGED <<mode, c_id_rsa, c_paste, c_vars, s_vars, c2s, s2c, f_sent, f_closed,
                   log, t_aes, o_vars>>

\* let probe = Packet::from_bytes(&buf), of the bytes of a packet
\* (packet.as_bytes()) or of a buffer from elsewhere
PacketFromBytesCall ==
    /\ <<t_packet.op, t_packet.src>> \in {<<"new", "args">>, <<"args", "bytes">>}
    /\ t_packet' = [t_packet EXCEPT
                      !.op = "from_bytes",
                      !.buf = PacketFromBytes(IF t_packet.op = "new"
                                              THEN PacketAsBytes(t_packet.buf)
                                              ELSE t_packet.buf)]
    /\ UNCHANGED <<mode, c_id_rsa, c_paste, c_vars, s_vars, c2s, s2c, f_sent, f_closed,
                   log, t_aes, o_vars>>

---------------------------------------------------------------------------
(* Aes256 called on its own, as the test of aes.rs calls it, and the secure *)
(* unit of write_packet_sec / read_packet_sec                               *)

\* The longest short plaintext: the 13 bytes of the test's "my plain text"
MaxPlainLen == 13
\* Number of encrypt calls made under one key
MaxEncrypts == 2

\* The plaintexts: the short ones and the bytes of a packet
Plains ==
    {PayloadBytes(n, fill) : n \in 0..MaxPlainLen, fill \in PayloadFills}
    \cup {PacketAsBytes(PacketNew(TyPaste, Xungoro)),
          PacketAsBytes(PacketNew(TyCopyAck, Xungoro))}

NoAesCall ==
    [op |-> "none", key |-> <<>>, plain |-> <<>>, calls |-> <<>>, ret |-> Ok(<<>>)]

\* let aes_key = Aes256::new().unwrap(), and the plaintext
AesCalls ==
    {[op |-> "args", key |-> AesKeyBytes(a), plain |-> plain, calls |-> <<>>,
      ret |-> Ok(<<>>)] : a \in AesKeyIds, plain \in Plains}

\* aes_key.encrypt(plain); calls keeps, per call, what OsRng returned and the
\* nonce the call used
AesEncryptCall ==
    /\ t_aes.op \in {"args", "encrypt"} /\ Len(t_aes.calls) < MaxEncrypts
    /\ \E n \in NonceIds :
         LET ret == AesEncrypt(t_aes.key, n, t_aes.plain) IN
         t_aes' = [t_aes EXCEPT
                     !.op = "encrypt", !.ret = ret,
                     !.calls = Append(@, [drawn |-> NonceBytes(n),
                                          nonce |-> IF ret.ok THEN ret.val[1]
                                                    ELSE <<>>])]
    /\ UNCHANGED <<mode, c_id_rsa, c_paste, c_vars, s_vars, c2s, s2c, f_sent, f_closed,
                   log, t_packet, o_vars>>

\* aes_key.decrypt(nonce, &enc_buf) of what encrypt returned
AesDecryptCall ==
    /\ t_aes.op = "encrypt" /\ t_aes.ret.ok
    /\ t_aes' = [t_aes EXCEPT
                   !.op = "decrypt",
                   !.ret = AesDecrypt(t_aes.key, t_aes.ret.val[1], t_aes.ret.val[2])]
    /\ UNCHANGED <<mode, c_id_rsa, c_paste, c_vars, s_vars, c2s, s2c, f_sent, f_closed,
                   log, t_packet, o_vars>>

\* write_packet_sec(packet) up to the write: the unit handed to write_bytes
WritePacketSecCall ==
    /\ t_aes.op \in {"args", "write_packet_sec"} /\ Len(t_aes.calls) < MaxEncrypts
    /\ Len(t_aes.plain) = PACKET_SIZE
    /\ \E n \in NonceIds :
         LET ret == SecUnit(t_aes.key, n, PacketFromBytes(t_aes.plain)) IN
         t_aes' = [t_aes EXCEPT
                     !.op = "write_packet_sec", !.ret = ret,
                     !.calls = Append(@, [drawn |-> NonceBytes(n),
                                          nonce |-> IF ret.ok
                                                    THEN Taken(ret.val, NONCE_SIZE)
                                                    ELSE <<>>])]
    /\ UNCHANGED <<mode, c_id_rsa, c_paste, c_vars, s_vars, c2s, s2c, f_sent, f_closed,
                   log, t_packet, o_vars>>

---------------------------------------------------------------------------
(* The network between the two endpoints altering a secure unit *)

\* One bit of a byte flipped.  A bit flipped in a ciphertext byte flips the
\* same bit of the byte it hides (Sym keeps the parity of the plain byte).
FlipBit(x) == IF x % 2 = 0 THEN x + 1 ELSE x - 1

\* The bytes of a unit that may be altered: the first byte of the nonce, the
\* first byte of the ciphertext, the first payload byte, and the last byte
\* of the tag
TamperPlaces ==
    {1, NONCE_SIZE + 1, NONCE_SIZE + SECTION_PAYLOAD_OFFSET + 1, SEC_UNIT_SIZE}

Tampered(unit, i) == [unit EXCEPT ![i] = FlipBit(@)]

\* The unit of the same packet and nonce, encrypted under key k instead
Rekeyed(unit, k) ==
    [i \in 1..Len(unit) |->
        IF IsSym(unit[i])
        THEN Sym(SymKind(unit[i]), k, SymNonce(unit[i]), SymByte(unit[i]))
        ELSE unit[i]]

\* What the network may turn a unit made under key id a into
TamperedUnits(unit, a) ==
    {Tampered(unit, i) : i \in TamperPlaces}
    \cup {Rekeyed(unit, k) : k \in AesKeyIds \ {a}}

\* The one unit in a stream, whole and as its sender made it, is altered
\* before the receiver reads it; every call before it moved all its bytes
TamperInTransit ==
    /\ mode = "honest"
    /\ \A i \in 1..Len(log) : log[i].n = log[i].req
    /\ \E dir \in {"c2s", "s2c"} :
         LET flight == IF dir = "c2s" THEN c2s ELSE s2c
             key == IF dir = "c2s" THEN c_aes_key ELSE s_aes_key
         IN
         /\ key # <<>> /\ Len(flight) = SEC_UNIT_SIZE
         /\ SecDecode(key[1], flight).out = "Ok"
         /\ \E unit \in TamperedUnits(flight, key[1][1]) :
              /\ c2s' = IF dir = "c2s" THEN unit ELSE c2s
              /\ s2c' = IF dir = "s2c" THEN unit ELSE s2c
         /\ log' = Append(log, Ev("net", "tamper", TRUE, <<>>, SEC_UNIT_SIZE,
                                  [ok |-> TRUE, n |-> 0], dir))
    /\ UNCHANGED <<mode, c_id_rsa, c_paste, t_vars, c_vars, s_vars, f_sent, f_closed>>

---------------------------------------------------------------------------
(* A peer that speaks the protocol: it sends its public key, takes the AES   *)
(* key from the sshsynack and sends commands as secure units                 *)

\* The number of commands the peer sends on its connection
MaxCommands == 3

\* b"hi", a second payload
Hi == <<104, 105>>
\* a type tag that is not utf-8
TyNotUtf8 == <<255, 112>>
\* " c", a comment after the key of an OpenSSH public key
KeyComment == <<32, 99>>

\* The sshsyn packets of the peer: one key with a comment, another without
PeerSshSyns ==
    { PacketNew(TySshSyn, ToOpenssh(1) \o KeyComment),
      PacketNew(TySshSyn, ToOpenssh(2)) }

\* The packets the peer sends as commands: the three commands, a second
\* paste, unknown tags, and packets whose length fields overflow
PeerCommands ==
    { PacketNew(TyCopy, <<>>),
      PacketNew(TyPaste, Xungoro),
      PacketNew(TyPaste, Hi),
      PacketNew(TyTerm, <<>>),
      PacketNew(TyOther, <<>>),
      PacketNew(TyNotUtf8, <<>>),
      PacketNew(TyBytes(SECTION_TYPE_SIZE + 1), <<>>),
      PacketNew(TyPaste, PayloadBytes(SECTION_PAYLOAD_SIZE + 1, 7)) }

PeerSendSshSyn ==
    /\ mode = "foreign_client" /\ ~f_closed /\ f_sent = 0
    /\ \E bytes \in PeerSshSyns : c2s' = c2s \o bytes
    /\ f_sent' = f_sent + 1
    /\ UNCHANGED <<mode, c_id_rsa, c_paste, t_vars, c_vars, s_vars, s2c, f_closed, log>>

\* The peer holds the AES key once the whole sshsynack was written to it.  It
\* reads what the server wrote, then sends a command; it waits until the
\* server has read the one before, and gives up after a transfer that was cut
\* short.
PeerSecSend ==
    /\ mode = "foreign_client" /\ ~f_closed
    /\ f_sent >= 1 /\ f_sent < 1 + MaxCommands
    /\ s_aes_key # <<>>
    /\ c2s = <<>>
    /\ \A i \in 1..Len(log) : log[i].n = log[i].req
    /\ s2c' = <<>>
    /\ \E packet \in PeerCommands :
          c2s' = c2s \o SecUnit(s_aes_key[1], 1, packet).val
    /\ f_sent' = f_sent + 1
    /\ UNCHANGED <<mode, c_id_rsa, c_paste, t_vars, c_vars, s_vars, f_closed, log>>

\* The number of replies the peer sends: one to paste, one to copy
MaxReplies == 2

\* The packets a peer sends as replies: the two acks, tags outside the
\* protocol, and packets whose length fields overflow
PeerReplies ==
    { PacketNew(TyPasteAck, <<>>),
      PacketNew(TyCopyAck, Hi),
      PacketNew(TyCopyAck, <<>>),
      PacketNew(TyOther, <<>>),
      PacketNew(TyNotUtf8, Hi),
      PacketNew(TyBytes(SECTION_TYPE_SIZE + 1), <<>>),
      PacketNew(TyCopyAck, PayloadBytes(SECTION_PAYLOAD_SIZE + 1, 7)) }

\* A peer in the place of the server answers sshsyn with a session key
PeerSendSshSynAck ==
    /\ mode = "foreign_server" /\ ~f_closed /\ f_sent = 0
    /\ c_rsa_priv_key # <<>>
    /\ \E a \in AesKeyIds :
          s2c' = s2c \o PacketNew(TySshSynAck,
                                  EncryptPkcs1v15(c_rsa_priv_key[1], AesKeyBytes(a)).val)
    /\ f_sent' = f_sent + 1
    /\ UNCHANGED <<mode, c_id_rsa, c_paste, t_vars, c_vars, s_vars, c2s, f_closed, log>>

\* and, once the client has written a command, reads it and sends one reply
\* of its choice under the session key
PeerSecReply ==
    /\ mode = "foreign_server" /\ ~f_closed
    /\ f_sent >= 1 /\ f_sent < 1 + MaxReplies
    /\ c_aes_key # <<>>
    /\ c_pc \in {"paste_read", "copy_read"}
    /\ s2c = <<>>
    /\ c2s # <<>>
    /\ c2s' = <<>>
    /\ \E packet \in PeerReplies :
          s2c' = SecUnit(c_aes_key[1], 1, packet).val
    /\ f_sent' = f_sent + 1
    /\ UNCHANGED <<mode, c_id_rsa, c_paste, t_vars, c_vars, s_vars, f_closed, log>>

---------------------------------------------------------------------------
(* cliplink-server/src/repository.rs and session.rs: several identities,
   several sessions *)

MaxRepoCalls == 3
MaxTurns == 3

\* InMemoryRepository::default()
InMemoryRepositoryDefault == <<>>

\* The identities of two peers, as Connection::id() gives them
Identities == {ServerId(1), ServerId(2)}
\* The payloads pasted
Clips == {Xungoro, Hi}
\* The clip argument: None, Some("default"), Some("other")
ClipArgs == {<<>>, <<"default">>, <<"other">>}

\* repository.patch(&id, clip, payload) on the one repository
RepositoryPatchCall ==
    /\ mode = "repository" /\ Len(t_repo.calls) < MaxRepoCalls
    /\ \E id \in Identities, clip \in ClipArgs, payload \in Clips :
          t_repo' = [store |-> RepoPatch(t_repo.store, id, clip, payload),
                     calls |-> Append(t_repo.calls,
                                      [op |-> "patch", id |-> id, clip |-> clip,
                                       payload |-> payload, ret |-> Ok(<<>>)])]
    /\ UNCHANGED <<mode, c_id_rsa, c_paste, c_vars, s_vars, c2s, s2c, f_sent, f_closed,
                   log, t_packet, t_aes, t_sessions, t_main, t_conns>>

\* repository.get(&id, clip) on the one repository
RepositoryGetCall ==
    /\ mode = "repository" /\ Len(t_repo.calls) < MaxRepoCalls
    /\ \E id \in Identities, clip \in ClipArgs :
          t_repo' = [t_repo EXCEPT
                       !.calls = Append(@, [op |-> "get", id |-> id, clip |-> clip,
                                            payload |-> <<>>,
                                            ret |-> RepoGet(t_repo.store, id, clip)])]
    /\ UNCHANGED <<mode, c_id_rsa, c_paste, c_vars, s_vars, c2s, s2c, f_sent, f_closed,
                   log, t_packet, t_aes, t_sessions, t_main, t_conns>>

\* Session::new(conn, repository): the session takes the Box of its
\* repository by value, so it is the only holder of that repository
SessionNew(key, repository) == [key |-> key, repo |-> repository, pc |-> "running"]

\* A repository that was used before it is given to a session: it holds the
\* default clip of the identity of key 2 and the clip "other" of that of key 1
PopulatedRepository ==
    RepoPatch(RepoPatch(InMemoryRepositoryDefault, ServerId(2), <<>>, Hi),
              ServerId(1), <<"other">>, Hi)

\* The commands a peer sends to a session: copy, paste, term, a type that is
\* none of them, and a paste whose payload length is beyond the section
SessionCommands ==
    { PacketNew(TyCopy, <<>>), PacketNew(TyPaste, Xungoro), PacketNew(TyPaste, Hi),
      PacketNew(TyTerm, <<>>), PacketNew(TyOther, <<>>),
      PacketNew(TyPaste, PayloadBytes(SECTION_PAYLOAD_SIZE + 1, 7)) }

\* One turn of the loop of blocking_handle in session i, from the packet that
\* read_packet_sec returned to the end of write_packet_sec(reply)?, which
\* writes the reply or returns the error of the socket
SessionBlockingHandleTurn ==
    /\ mode = "sessions" /\ Len(t_sessions.turns) < MaxTurns
    /\ \E i \in DOMAIN t_sessions.of, packet \in SessionCommands, wrote \in BOOLEAN :
          LET ses == t_sessions.of[i]
              d == SessionDispatch(ses.repo, <<ses.key>>, packet)
              failed == d.reply # <<>> /\ ~wrote
          IN
          /\ ses.pc = "running"
          /\ d.reply = <<>> => wrote = FALSE
          /\ t_sessions' =
                [of |-> [t_sessions.of EXCEPT
                           ![i] = [ses EXCEPT
                                     !.repo = d.repo,
                                     !.pc = IF d.out # "Ok" \/ d.term \/ failed
                                            THEN "returned" ELSE "running"]],
                 turns |-> Append(t_sessions.turns,
                                  [session |-> i, ty |-> PacketTy(packet),
                                   payload |-> PacketPayload(packet),
                                   out |-> IF failed THEN "Err" ELSE d.out,
                                   err |-> IF failed THEN "IOError" ELSE d.err,
                                   id |-> d.id, reply |-> d.reply, wrote |-> wrote,
                                   before |-> ses.repo, after |-> d.repo])]
    /\ UNCHANGED <<mode, c_id_rsa, c_paste, c_vars, s_vars, c2s, s2c, f_sent, f_closed,
                   log, t_packet, t_aes, t_repo, t_main, t_conns>>

---------------------------------------------------------------------------
(* cliplink-server/src/conn.rs: gen_aes256_key on several connections *)

\* Aes256::new whatever OsRng returns: a key built into the program
AesNewStatic(drawn) == Ok(AesKeyBytes(1))

\* Aes256::new(): the key is the 32 bytes OsRng filled in
AesNew(drawn) == Ok(drawn)

\* A Connection<HandshakeAck> after validate_ssh_key accepted the key of a peer
ConnectionHandshakeAck(key) ==
    [state |-> "HandshakeAck", rsa_pub_key |-> <<key>>, aes_key |-> <<>>,
     res |-> NoRes]

\* gen_aes256_key on connection i: Aes256::new, encrypt_pkcs1v15, write_output,
\* then the key is stored and the connection is Secure; on an error the
\* connection is dropped with what it held
ConnectionGenAes256Key ==
    /\ mode = "handshakes"
    /\ \E i \in DOMAIN t_conns.of, a \in AesKeyIds, wrote \in BOOLEAN :
          LET conn == t_conns.of[i]
              aes_key == AesNew(AesKeyBytes(a))
              enc == EncryptPkcs1v15(conn.rsa_pub_key[1], AesAsBytes(aes_key.val))
              draws == Append(t_conns.draws, [conn |-> i, drawn |-> AesKeyBytes(a)])
              dropped == [conn EXCEPT !.state = "dropped", !.rsa_pub_key = <<>>]
          IN
          /\ conn.state = "HandshakeAck"
          /\ enc.ok \/ wrote
          /\ t_conns' =
                [of |-> [t_conns.of EXCEPT
                           ![i] = IF ~enc.ok
                                  THEN [dropped EXCEPT
                                          !.res = Res("gen_aes256_key", "Err", enc.err)]
                                  ELSE IF ~wrote
                                  THEN [dropped EXCEPT
                                          !.res = Res("gen_aes256_key", "Err", "IOError")]
                                  ELSE [conn EXCEPT
                                          !.state = ServerGenAes256KeyNext,
                                          !.aes_key = <<aes_key.val>>,
                                          !.res = Res("gen_aes256_key", "Ok", "")]],
                 draws |-> draws]
    /\ UNCHANGED <<mode, c_id_rsa, c_paste, c_vars, s_vars, c2s, s2c, f_sent, f_closed,
                   log, t_packet, t_aes, t_repo, t_sessions, t_main>>

---------------------------------------------------------------------------
(* cliplink-server/src/main.rs *)

MaxIncoming == 3

\* What the peer of an accepted connection does: sends a packet, sends fewer
\* bytes, closes without sending, resets the connection while the worker
\* reads, or has reset it already when accept returns
PeerBehaviours == {"packet", "short", "eof", "reset", "reset_early"}

\* stream.peer_addr(): fails (not connected) for a connection the peer has
\* reset already
PeerAddr(peer) == IF peer = "reset_early" THEN Err("NotConnected") ELSE Ok(peer)

\* stream.read(&mut buf) in handle()
MainRead(peer) ==
    IF peer = "packet" THEN Ok(PACKET_SIZE)
    ELSE IF peer = "short" THEN Ok(PACKET_SIZE - 1)
    ELSE IF peer = "eof" THEN Ok(0)
    ELSE Err("IOError")

\* One turn of `for stream in socket.incoming()` that yields Err: the error is
\* printed and the loop continues
MainIncomingErr ==
    /\ mode = "main" /\ t_main.pc = "accepting"
    /\ t_main.incoming < MaxIncoming
    /\ t_main' = [t_main EXCEPT !.incoming = @ + 1, !.errors = @ + 1]
    /\ UNCHANGED <<mode, c_id_rsa, c_paste, c_vars, s_vars, c2s, s2c, f_sent, f_closed,
                   log, t_packet, t_aes, t_repo, t_sessions, t_conns>>

\* One turn that yields Ok(stream): println! of stream.peer_addr().unwrap() in
\* the main thread, then std::thread::spawn of handle(stream).  A panic of the
\* main thread ends the process and with it every worker still running.
MainIncomingOk ==
    /\ mode = "main" /\ t_main.pc = "accepting"
    /\ t_main.incoming < MaxIncoming
    /\ \E peer \in PeerBehaviours :
          IF PeerAddr(peer).ok
          THEN t_main' = [t_main EXCEPT
                            !.incoming = @ + 1, !.accepted = @ + 1,
                            !.workers = Append(@, [peer |-> peer, pc |-> "running"])]
          ELSE t_main' = [t_main EXCEPT
                            !.incoming = @ + 1, !.accepted = @ + 1,
                            !.pc = "panicked",
                            !.workers = [i \in DOMAIN @ |->
                                           IF @[i].pc = "running"
                                           THEN [@[i] EXCEPT !.pc = "killed"]
                                           ELSE @[i]]]
    /\ UNCHANGED <<mode, c_id_rsa, c_paste, c_vars, s_vars, c2s, s2c, f_sent, f_closed,
                   log, t_packet, t_aes, t_repo, t_sessions, t_conns>>

\* handle(stream) in its own thread: one read; a read error shuts the socket
\* down and panics, which ends this thread only
MainHandle ==
    /\ mode = "main"
    /\ \E i \in DOMAIN t_main.workers :
          /\ t_main.workers[i].pc = "running"
          /\ t_main' = [t_main EXCEPT
                          !.workers[i].pc = IF MainRead(t_main.workers[i].peer).ok
                                            THEN "done" ELSE "panicked"]
    /\ UNCHANGED <<mode, c_id_rsa, c_paste, c_vars, s_vars, c2s, s2c, f_sent, f_closed,
                   log, t_packet, t_aes, t_repo, t_sessions, t_conns>>

\* Nothing of the above has run
NoRepoCall == [store |-> InMemoryRepositoryDefault, calls |-> <<>>]
NoSessions == [of |-> <<>>, turns |-> <<>>]
MainStarted == [pc |-> "accepting", incoming |-> 0, accepted |-> 0, errors |-> 0,
                workers |-> <<>>]
NoConnections == [of |-> <<>>, draws |-> <<>>]
NoServerRun ==
    /\ t_repo = NoRepoCall /\ t_sessions = NoSessions /\ t_main = MainStarted
    /\ t_conns = NoConnections

---------------------------------------------------------------------------
(* The specification *)

\* ~/.ssh/id_rsa: a 2048-bit RSA key, a 1024-bit RSA key, or no file
KeyFiles == {<<1>>, <<3>>, <<>>}

\* Connection::from(stream) on both sides, nothing sent yet
ConnectionsFrom ==
    /\ c_pc = "send_ssh_key"
    /\ c_state = "Handshake"
    /\ c_aes_key = <<>>
    /\ c_rsa_priv_key = <<>>
    /\ c_buf = [i \in 1..PACKET_SIZE |-> 0]
    /\ c_res = NoRes
    /\ c_clip = <<>>
    /\ s_pc = "running"
    /\ s_state = "Handshake"
    /\ s_aes_key = <<>>
    /\ s_rsa_pub_key = <<>>
    /\ s_buf = <<>>
    /\ s_res = NoRes
    /\ repo = <<>>
    /\ s_cmds = <<>>
    /\ c2s = <<>>
    /\ s2c = <<>>
    /\ f_sent = 0
    /\ f_closed = FALSE
    /\ log = <<>>

\* and the clip of handle() to paste
ConnectionsNew == ConnectionsFrom /\ c_paste = HandlePaste

Init ==
    /\ mode \in {"honest", "foreign_client", "foreign_server"}
    /\ c_id_rsa \in KeyFiles
    /\ (mode = "foreign_client" => c_id_rsa = <<>>)
    /\ ConnectionsNew
    /\ NoServerRun
    /\ t_packet = NoPacketCall
    /\ t_aes = NoAesCall

Next ==
    \/ ClientSendSshKey
    \/ ClientReadBytes
    \/ ClientParseAes256Key
    \/ ClientPasteWrite
    \/ ClientPasteRead
    \/ ClientCopyWrite
    \/ ClientCopyRead
    \/ ServerReadBytes
    \/ ServerValidateSshKey
    \/ ServerGenAes256Key
    \/ ServerBlockingHandle
    \/ ForeignClientSend
    \/ ForeignServerSend
    \/ ForeignClose

Spec == Init /\ [][Next]_vars

\* The worker of the connection runs: a read that can return does return, and
\* the session loop goes on to its next step
FairSpec == Spec /\ WF_vars(ServerBlockingHandle)

\* One repository called under two identities, or two sessions of peers with
\* the same or with different keys
RepositoryInit ==
    /\ mode \in {"repository", "sessions"} /\ c_id_rsa = <<>>
    /\ ConnectionsNew
    /\ t_packet = NoPacketCall
    /\ t_aes = NoAesCall
    /\ t_repo = NoRepoCall
    /\ t_main = MainStarted
    /\ t_conns = NoConnections
    /\ IF mode = "sessions"
       THEN \E k2 \in {1, 2},
               r1 \in {InMemoryRepositoryDefault, PopulatedRepository} :
               t_sessions = [of |-> <<SessionNew(1, r1),
                                      SessionNew(k2, InMemoryRepositoryDefault)>>,
                             turns |-> <<>>]
       ELSE t_sessions = NoSessions

RepositoryNext ==
    \/ RepositoryPatchCall
    \/ RepositoryGetCall
    \/ SessionBlockingHandleTurn

RepositorySpec == RepositoryInit /\ [][RepositoryNext]_vars

\* Connections of a server, each with the key of its peer, at gen_aes256_key
MaxConnections == 3
HandshakesInit ==
    /\ mode = "handshakes" /\ c_id_rsa = <<>>
    /\ ConnectionsNew
    /\ t_packet = NoPacketCall
    /\ t_aes = NoAesCall
    /\ t_repo = NoRepoCall
    /\ t_sessions = NoSessions
    /\ t_main = MainStarted
    /\ \E keys \in [1..MaxConnections -> RsaKeyIds] :
          t_conns = [of |-> [i \in 1..MaxConnections |-> ConnectionHandshakeAck(keys[i])],
                     draws |-> <<>>]

HandshakesNext == ConnectionGenAes256Key

HandshakesSpec == HandshakesInit /\ [][HandshakesNext]_vars

\* The server process: main() and the workers it spawns
MainInit ==
    /\ mode = "main" /\ c_id_rsa = <<>>
    /\ ConnectionsNew
    /\ t_packet = NoPacketCall
    /\ t_aes = NoAesCall
    /\ t_repo = NoRepoCall
    /\ t_sessions = NoSessions
    /\ t_main = MainStarted
    /\ t_conns = NoConnections

MainNext ==
    \/ MainIncomingOk
    \/ MainIncomingErr
    \/ MainHandle

MainSpec == MainInit /\ [][MainNext]_vars

\* A connection whose client is a peer that speaks the protocol and sends
\* commands of its choice
SessionInit ==
    /\ mode = "foreign_client"
    /\ c_id_rsa = <<>>
    /\ ConnectionsNew
    /\ NoServerRun
    /\ t_packet = NoPacketCall
    /\ t_aes = NoAesCall

SessionNext ==
    \/ ServerReadBytes
    \/ ServerValidateSshKey
    \/ ServerGenAes256Key
    \/ ServerBlockingHandle
    \/ PeerSendSshSyn
    \/ PeerSecSend

SessionSpec == SessionInit /\ [][SessionNext]_vars

\* A client whose server is a peer that speaks the protocol and sends
\* replies of its choice
ReplyInit ==
    /\ mode = "foreign_server"
    /\ c_id_rsa = <<1>>
    /\ ConnectionsNew
    /\ NoServerRun
    /\ t_packet = NoPacketCall
    /\ t_aes = NoAesCall

ReplyNext ==
    \/ ClientSendSshKey
    \/ ClientReadBytes
    \/ ClientParseAes256Key
    \/ ClientPasteWrite
    \/ ClientPasteRead
    \/ ClientCopyWrite
    \/ ClientCopyRead
    \/ PeerSendSshSynAck
    \/ PeerSecReply
    \/ ForeignClose

ReplySpec == ReplyInit /\ [][ReplyNext]_vars

\* The lengths of the bufs given to paste: the 7 bytes of handle(), one
\* byte more than the capacity, and a length that needs a third length byte
PasteLens == {7, SECTION_PAYLOAD_SIZE + 1, 65536 + 5}

\* An honest client that pastes a buf of any of these lengths
PasteInit ==
    /\ mode = "honest"
    /\ c_id_rsa = <<1>>
    /\ \E n \in PasteLens : c_paste = [head |-> Xungoro, more |-> n - Len(Xungoro)]
    /\ ConnectionsFrom
    /\ NoServerRun
    /\ t_packet = NoPacketCall
    /\ t_aes = NoAesCall

PasteNext ==
    \/ ClientSendSshKey
    \/ ClientReadBytes
    \/ ClientParseAes256Key
    \/ ClientPasteWrite
    \/ ClientPasteRead
    \/ ClientCopyWrite
    \/ ClientCopyRead
    \/ ServerReadBytes
    \/ ServerValidateSshKey
    \/ ServerGenAes256Key
    \/ ServerBlockingHandle

PasteSpec == PasteInit /\ [][PasteNext]_vars

\* The codec on its own: no endpoint runs
PacketInit ==
    /\ mode = "codec" /\ c_id_rsa = <<>>
    /\ ConnectionsNew
    /\ NoServerRun
    /\ t_packet \in PacketCalls
    /\ t_aes = NoAesCall

PacketNext ==
    \/ PacketNewCall
    \/ PacketFromBytesCall

PacketSpec == PacketInit /\ [][PacketNext]_vars

\* Aes256 on its own: no endpoint runs
AesInit ==
    /\ mode = "crypto" /\ c_id_rsa = <<>>
    /\ ConnectionsNew
    /\ NoServerRun
    /\ t_packet = NoPacketCall
    /\ t_aes \in AesCalls

AesNext ==
    \/ AesEncryptCall
    \/ AesDecryptCall
    \/ WritePacketSecCall

AesSpec == AesInit /\ [][AesNext]_vars

\* The two endpoints of the repository over a network that alters units
TamperInit ==
    /\ mode = "honest" /\ c_id_rsa = <<1>>
    /\ ConnectionsNew
    /\ NoServerRun
    /\ t_packet = NoPacketCall
    /\ t_aes = NoAesCall

TamperNext ==
    \/ ClientSendSshKey
    \/ ClientReadBytes
    \/ ClientParseAes256Key
    \/ ClientPasteWrite
    \/ ClientPasteRead
    \/ ClientCopyWrite
    \/ ClientCopyRead
    \/ ServerReadBytes
    \/ ServerValidateSshKey
    \/ ServerGenAes256Key
    \/ ServerBlockingHandle
    \/ TamperInTransit

TamperSpec == TamperInit /\ [][TamperNext]_vars

---------------------------------------------------------------------------
(* Properties *)

Events(side, op) == SelectSeq(log, LAMBDA e : e.side = side /\ e.op = op)
SideEvents(side) == SelectSeq(log, LAMBDA e : e.side = side)
ClearWrites(side) ==
    SelectSeq(log, LAMBDA e : e.side = side /\ e.op = "write" /\ ~e.sec)

\* The handshake packets as the two endpoints build them from what they hold
SentSshSyn == ClientOutputPacket(ToOpenssh(c_rsa_priv_key[1]))
SentSshSynAck ==
    ServerOutputPacket("SshHandshakeAck",
                       EncryptPkcs1v15(s_rsa_pub_key[1], AesAsBytes(s_aes_key[1])).val)

\* All four transitions returned Ok and each side read the packet the other built
HandshakeCompleted ==
    /\ mode = "honest"
    /\ c_state = "Secure" /\ s_state = "Secure"
    /\ s_buf = <<SentSshSyn>>
    /\ c_buf = SentSshSynAck

\* C1: handshake convergence.  When send_ssh_key, validate_ssh_key,
\* gen_aes256_key and parse_aes256_key all returned Ok and both handshake
\* packets arrived as they were built, the client's session key equals the
\* server's session key.
C1_HandshakeConvergence ==
    HandshakeCompleted => (c_aes_key # <<>> /\ c_aes_key = s_aes_key)

C1_Witness == HandshakeCompleted /\ c_aes_key = s_aes_key /\ s_aes_key # <<>>

\* C2: no session traffic before the key exchange completes.  Every
\* read_packet_sec / write_packet_sec in the history was made by a connection
\* in Secure; a server one comes after the server's write of sshsynack, a
\* client one after the client's read of the handshake reply, and the side
\* holds its session key.
C2_SecureOnlyAfterKeyExchange ==
    \A i \in 1..Len(log) :
        log[i].sec =>
            /\ log[i].state = "Secure"
            /\ log[i].side = "s" =>
                 /\ s_aes_key # <<>>
                 /\ \E j \in 1..(i - 1) :
                       /\ log[j].side = "s" /\ log[j].op = "write" /\ ~log[j].sec
                       /\ log[j].ty = TySshSynAck /\ log[j].n >= 0
            /\ log[i].side = "c" =>
                 /\ c_aes_key # <<>>
                 /\ \E j \in 1..(i - 1) :
                       /\ log[j].side = "c" /\ log[j].op = "read" /\ ~log[j].sec
                       /\ log[j].n >= 0

C2_Witness ==
    /\ \E i \in 1..Len(log) : log[i].sec /\ log[i].side = "s" /\ log[i].op = "write"
    /\ \E i \in 1..Len(log) : log[i].sec /\ log[i].side = "c" /\ log[i].op = "read"

\* The transitions of the typestate
TypestateStep(a, b) ==
    \/ a = b
    \/ a = "Handshake" /\ b = "HandshakeAck"
    \/ a = "HandshakeAck" /\ b = "Secure"

\* C3: the protocol state only advances Handshake -> HandshakeAck -> Secure.
\* No step moves a connection back or from Handshake to Secure, Secure is
\* never left, and once a transition has failed (the connection was consumed)
\* the connection is not used again: its fields and its socket calls stay as
\* they are.
C3_TypestateAdvances ==
    [][ /\ TypestateStep(c_state, c_state')
        /\ TypestateStep(s_state, s_state')
        /\ c_pc \in Ended => (c_vars' = c_vars /\ SideEvents("c")' = SideEvents("c"))
        /\ s_pc \in Ended => (s_vars' = s_vars /\ SideEvents("s")' = SideEvents("s"))
      ]_vars

C3_Witness ==
    /\ c_state = "Secure" /\ s_state = "Secure"
    /\ c_pc \in Ended /\ s_pc \in Ended

\* C4: single round trip.  A client that reached Secure has written exactly
\* one cleartext packet, of type sshsyn; a server that reached Secure has
\* written exactly one, of type sshsynack; the sshsyn comes first; and no
\* side writes a cleartext packet after a secure one.
C4_SingleRoundTrip ==
    /\ c_state = "Secure" =>
          /\ Len(ClearWrites("c")) = 1
          /\ ClearWrites("c")[1].ty = TySshSyn
    /\ s_state = "Secure" =>
          /\ Len(ClearWrites("s")) = 1
          /\ ClearWrites("s")[1].ty = TySshSynAck
    /\ (mode = "honest" /\ c_state = "Secure" /\ s_state = "Secure") =>
          \E i, j \in 1..Len(log) :
             /\ i < j
             /\ log[i].side = "c" /\ log[i].op = "write" /\ ~log[i].sec
             /\ log[j].side = "s" /\ log[j].op = "write" /\ ~log[j].sec
    /\ \A i, j \in 1..Len(log) :
          (/\ log[i].side = log[j].side
           /\ log[i].op = "write" /\ log[j].op = "write"
           /\ ~log[i].sec /\ log[j].sec) => i < j

C4_Witness ==
    /\ mode = "honest" /\ c_state = "Secure" /\ s_state = "Secure"
    /\ \E i \in 1..Len(log) : log[i].sec /\ log[i].side = "s" /\ log[i].op = "write"

\* The server's validate_ssh_key ran on an sshsyn packet whose payload is no
\* RSA public key
SshSynWithBadKey ==
    /\ s_res.call = "validate_ssh_key"
    /\ PacketTy(s_buf[1]).ok /\ PacketTy(s_buf[1]).val = TySshSyn
    /\ PacketPayload(s_buf[1]).ok
    /\ ~RsaPubKeyFromOpenssh(PacketPayload(s_buf[1]).val).ok

\* C5: denial path.  When validate_ssh_key gets an sshsyn packet whose payload
\* is not a parseable OpenSSH public key or is not an RSA key, the server
\* writes a packet of type sshsyndeny, the handshake fails and the connection
\* stays in Handshake.
C5_DenialPath ==
    SshSynWithBadKey =>
        /\ \E i \in 1..Len(log) :
              /\ log[i].side = "s" /\ log[i].op = "write" /\ log[i].ty = TySshSynDeny
        /\ s_res.out = "Err"
        /\ s_state = "Handshake"

\* The client's parse_aes256_key ran on a packet of type sshsyndeny
ParsedSshSynDeny ==
    /\ c_res.call = "parse_aes256_key"
    /\ PacketTy(c_buf).ok /\ PacketTy(c_buf).val = TySshSynDeny

\* C6: when the client in HandshakeAck gets a packet of type sshsyndeny,
\* parse_aes256_key returns an error, the client is not Secure and holds no
\* session key, and it makes no further call on the socket: its history stays
\* the write of sshsyn and the read of the reply.
C6_DenyIsTerminal ==
    ParsedSshSynDeny =>
        /\ c_res.out = "Err"
        /\ c_state = "HandshakeAck"
        /\ c_aes_key = <<>>
        /\ c_pc = "failed"
        /\ Len(SideEvents("c")) = 2
        /\ SideEvents("c")[2].op = "read" /\ ~SideEvents("c")[2].sec

C6_Witness == ParsedSshSynDeny /\ c_pc = "failed"

\* C7: a handshake packet with an unexpected type tag is a recoverable error.
\* validate_ssh_key on a packet whose type is not sshsyn, and parse_aes256_key
\* on a packet whose type is neither sshsynack nor sshsyndeny, return Err and
\* do not panic.
C7_UnexpectedTypeIsErr ==
    /\ (/\ s_res.call = "validate_ssh_key"
        /\ PacketTy(s_buf[1]).ok /\ PacketTy(s_buf[1]).val # TySshSyn)
       => (s_res.out = "Err" /\ s_pc # "panicked")
    /\ (/\ c_res.call = "parse_aes256_key"
        /\ PacketTy(c_buf).ok /\ PacketTy(c_buf).val \notin {TySshSynAck, TySshSynDeny})
       => (c_res.out = "Err" /\ c_pc # "panicked")

\* C8: a socket read that fails with an I/O error, in any protocol state, is
\* returned to the caller as an error (IOError); the thread does not panic.
C8_ReadErrorIsReturned ==
    \A i \in 1..Len(log) :
        (log[i].op = "read" /\ log[i].n < 0) =>
            /\ log[i].side = "c" => (c_pc = "failed" /\ c_res.out = "Err"
                                     /\ c_res.err = "IOError")
            /\ log[i].side = "s" => (s_pc = "failed" /\ s_res.out = "Err"
                                     /\ s_res.err = "IOError")

\* C9: exact-length read.  When every unit so far was written whole by the
\* peer, a read that returns Ok has obtained the whole unit it asked for
\* (PACKET_SIZE, or 12 + PACKET_SIZE + 16 bytes), however the bytes arrive.
C9_ExactLengthRead ==
    \A d \in {<<"c", "s">>, <<"s", "c">>} :
        LET W == Events(d[1], "write")
            R == Events(d[2], "read")
        IN  \A i \in 1..Len(R) :
               (/\ i <= Len(W)
                /\ \A j \in 1..i : W[j].n = W[j].req
                /\ R[i].n >= 0)
               => R[i].n = R[i].req

\* C10: full write.  A write of a handshake packet or of a secure unit that
\* returns Ok has handed all of its bytes to the socket.
C10_FullWrite ==
    \A i \in 1..Len(log) :
        (log[i].op = "write" /\ log[i].n >= 0) => log[i].n = log[i].req

---------------------------------------------------------------------------
(* Properties of the secure unit and of Aes256 *)

LastCall == t_aes.calls[Len(t_aes.calls)]

\* C11: the unit of write_packet_sec.  Every unit write_packet_sec hands to
\* write_bytes is 12 + PACKET_SIZE + 16 bytes long: first the 12-byte nonce
\* the encryption used, then the ciphertext of the whole PACKET_SIZE-byte
\* packet with its 16-byte tag, which decrypts under that nonce to the
\* packet.  encrypt returns a ciphertext 16 bytes longer than its plaintext,
\* or else EncryptedOutputLength.
C11_SecureUnit ==
    /\ t_aes.op = "write_packet_sec" =>
         /\ t_aes.ret.ok
         /\ Len(t_aes.ret.val) = NONCE_SIZE + PACKET_SIZE + GCM_AUTHENTICATION_TAG_SIZE
         /\ Taken(t_aes.ret.val, NONCE_SIZE) = LastCall.drawn
         /\ \A i \in (NONCE_SIZE + 1)..Len(t_aes.ret.val) :
               /\ IsSym(t_aes.ret.val[i])
               /\ SymKind(t_aes.ret.val[i])
                    = (IF i <= NONCE_SIZE + PACKET_SIZE THEN 2 ELSE 3)
         /\ AesDecrypt(t_aes.key, LastCall.drawn, Rest(t_aes.ret.val, NONCE_SIZE))
              = Ok(t_aes.plain)
    /\ t_aes.op = "encrypt" =>
         IF t_aes.ret.ok
         THEN Len(t_aes.ret.val[2]) = Len(t_aes.plain) + GCM_AUTHENTICATION_TAG_SIZE
         ELSE t_aes.ret.err = "EncryptedOutputLength"

C11_Witness ==
    /\ t_aes.op = "write_packet_sec" /\ t_aes.ret.ok
    /\ Len(t_aes.ret.val) = 1052
    /\ PacketTy(t_aes.plain) = Ok(TyPaste)

Reader(dir) == IF dir = "c2s" THEN "s" ELSE "c"

\* C13: tamper rejection.  After a unit was altered in transit (a bit of its
\* nonce, ciphertext or tag flipped, or the unit made under another key),
\* the read_packet_sec of the receiver that reads it yields no packet: when
\* the read delivered bytes the call ends with the Aes error, the receiver's
\* session ends there, and the receiver makes no socket call after it.
C13_TamperRejection ==
    \A i \in 1..Len(log) :
        log[i].op = "tamper" =>
            \A j \in (i + 1)..Len(log) :
                (log[j].side = Reader(log[i].state) /\ log[j].op = "read") =>
                    /\ \A k \in (j + 1)..Len(log) : log[k].side # log[j].side
                    /\ log[j].side = "s" =>
                         /\ s_pc \in {"failed", "panicked"}
                         /\ log[j].n >= 0 =>
                              s_res = Res("blocking_handle", "Err", "Aes")
                    /\ log[j].side = "c" =>
                         /\ c_pc \in {"failed", "panicked"}
                         /\ log[j].n >= 0 =>
                              (c_res.out = "Err" /\ c_res.err = "Aes")

C13_Witness ==
    \E i \in 1..Len(log) :
        /\ log[i].op = "tamper" /\ log[i].state = "c2s"
        /\ \E j \in (i + 1)..Len(log) :
              /\ log[j].side = "s" /\ log[j].op = "read"
              /\ log[j].n = SEC_UNIT_SIZE
        /\ s_res = Res("blocking_handle", "Err", "Aes")
        /\ s_pc = "failed"

\* C14: AEAD round trip.  decrypt, given the nonce and the ciphertext that
\* encrypt returned for a plaintext under the same key, returns that
\* plaintext.
C14_AeadRoundTrip ==
    t_aes.op = "decrypt" => t_aes.ret = Ok(t_aes.plain)

C14_Witness ==
    /\ t_aes.op = "decrypt"
    /\ t_aes.plain = PayloadBytes(13, 7)
    /\ t_aes.ret = Ok(t_aes.plain)

---------------------------------------------------------------------------
(* Properties of the packet codec *)

\* The length a two-byte little-endian field of buf at 0-based offset declares
Declared(buf, offset) == buf[offset + 1] + 256 * buf[offset + 2]

\* Claim C15. Codec round trip: for a type of at most 24 bytes and a payload
\* of at most 996 bytes, ty() and payload() of Packet::new(type, payload)
\* return Ok(type) and Ok(payload), and so do they on
\* Packet::from_bytes(p.as_bytes()).
C15_CodecRoundTrip ==
    (/\ t_packet.src = "args"
     /\ t_packet.op \in {"new", "from_bytes"}
     /\ Len(t_packet.ty) <= 24
     /\ Len(ArgPayload) <= 996)
    => /\ PacketTy(t_packet.buf) = Ok(t_packet.ty)
       /\ PacketPayload(t_packet.buf) = Ok(ArgPayload)

\* A full type and a full payload came back from the copy of a packet
C15_Witness ==
    /\ t_packet.src = "args"
    /\ t_packet.op = "from_bytes"
    /\ Len(t_packet.ty) = 24
    /\ Len(ArgPayload) = 996
    /\ ArgPayload[1] = 7
    /\ PacketPayload(t_packet.buf) = Ok(ArgPayload)

\* Claim C16. Encode overflow: Packet::new with a type longer than 24 bytes or
\* a payload longer than 996 bytes fails (SectionOverflow, BufferOverflow) and
\* produces no packet.
C16_EncodeOverflow ==
    (/\ t_packet.op = "new"
     /\ Len(t_packet.ty) > 24 \/ Len(ArgPayload) > 996)
    => Len(t_packet.buf) # PACKET_SIZE

\* Claim C17. For every payload longer than 996 bytes, with no upper limit,
\* payload() of Packet::new(type, payload) returns Err(SectionOverflow) and
\* never Ok with some bytes.
C17_OversizePayloadRejected ==
    (t_packet.op = "new" /\ Len(ArgPayload) > 996)
    => PacketPayload(t_packet.buf) = Err("SectionOverflow")

C19_ZeroPadding ==
    t_packet.op = "new"
    => /\ \A i \in (Len(t_packet.ty) + 1)..24 : t_packet.buf[2 + i] = 0
       /\ \A i \in (Len(ArgPayload) + 1)..996 : t_packet.buf[28 + i] = 0

\* The packet of the tests' shape: a short type, 14 bytes of payload, padding
C19_Witness ==
    /\ t_packet.op = "new"
    /\ Len(t_packet.ty) = 3
    /\ Len(ArgPayload) = 14
    /\ t_packet.buf[28 + 14] = 98
    /\ t_packet.buf[28 + 15] = 0
    /\ t_packet.buf[PACKET_SIZE] = 0

\* Claim C20. Decode is bounds-safe: for any PACKET_SIZE-byte buffer b, ty()
\* of Packet::from_bytes(b) is Err(SectionOverflow) or a slice of at most 24
\* bytes inside [2,26), payload() is an overflow error or a slice of at most
\* 996 bytes inside [28,PACKET_SIZE); a slice is taken only where the
\* declared length keeps it inside the buffer.
C20_DecodeBoundsSafe ==
    t_packet.op = "from_bytes"
    => LET buf == t_packet.buf
           ty == PacketTy(buf)
           payload == PacketPayload(buf)
       IN  /\ Len(buf) = PACKET_SIZE
           /\ \/ ty = Err("SectionOverflow")
              \/ /\ ty.ok
                 /\ Len(ty.val) <= 24
                 /\ 2 + Declared(buf, 0) <= 26
                 /\ ty.val = SubSeq(buf, 3, 2 + Len(ty.val))
           /\ \/ payload \in {Err("SectionOverflow"), Err("BufferOverflow")}
              \/ /\ payload.ok
                 /\ Len(payload.val) <= 996
                 /\ 28 + Declared(buf, 26) <= PACKET_SIZE
                 /\ payload.val = SubSeq(buf, 29, 28 + Len(payload.val))

\* A buffer from elsewhere declaring a type of 65535 bytes and a full payload
C20_Witness ==
    /\ t_packet.op = "from_bytes"
    /\ t_packet.src = "bytes"
    /\ Declared(t_packet.buf, 0) = 65535
    /\ PacketTy(t_packet.buf) = Err("SectionOverflow")
    /\ PacketPayload(t_packet.buf).ok
    /\ Len(PacketPayload(t_packet.buf).val) = 996

---------------------------------------------------------------------------
(* Properties of the session loop of the server *)

\* A paste the server stored and answered with pasteack
AckedPaste(e) == e.ty = Ok(TyPaste) /\ e.out = "Ok" /\ e.reply # <<>>
\* The acknowledged pastes among the first i - 1 packets of the session
PastesBefore(i) == {j \in 1..(i - 1) : AckedPaste(s_cmds[j])}
\* The greatest element of a nonempty set of numbers
Latest(S) == CHOOSE j \in S : \A k \in S : k <= j

RepoAfter(i) ==
    IF PastesBefore(i + 1) = {} THEN <<>>
    ELSE LET e == s_cmds[Latest(PastesBefore(i + 1))] IN
         [id \in {e.id[1]} |-> [c \in {DEFAULT_CLIP} |-> e.payload.val]]

\* The packets of the session whose type is none of copy, paste and term
UnknownCommands ==
    {i \in 1..Len(s_cmds) :
        s_cmds[i].ty.ok /\ s_cmds[i].ty.val \notin {TyCopy, TyPaste, TyTerm}}

\* blocking_handle returned Err(err) on packet i: nothing was written for it,
\* the repository is as before it, it is the last packet read, no panic
EndsWithErr(i, err) ==
    /\ s_cmds[i].out = "Err" /\ s_cmds[i].err = err
    /\ s_cmds[i].reply = <<>> /\ s_cmds[i].wrote = <<>>
    /\ Len(Events("s", "write")) = 1 + (i - 1)
    /\ repo = RepoAfter(i - 1)
    /\ i = Len(s_cmds)
    /\ s_pc = "failed"
    /\ s_res = Res("blocking_handle", "Err", err)

\* Claim C23. Unknown command: on a secure packet whose type is not copy,
\* paste or term, blocking_handle returns Err(TypeNotSupported) carrying that
\* tag, sends no reply, leaves the repository unchanged, processes no further
\* command and does not panic.
C23_UnknownCommand ==
    \A i \in UnknownCommands :
       /\ EndsWithErr(i, "TypeNotSupported")
       /\ s_cmds[i].tag = s_cmds[i].ty.val

\* Claim C23, amended: the error carries the tag when the tag is utf-8, and
\* the empty string when it is not.
C23_UnknownCommandTagIfUtf8 ==
    \A i \in UnknownCommands :
       LET tag == s_cmds[i].ty.val IN
       /\ EndsWithErr(i, "TypeNotSupported")
       /\ s_cmds[i].tag \in {tag, <<>>}
       /\ (\A k \in 1..Len(tag) : tag[k] <= 127) => s_cmds[i].tag = tag
       /\ (\E k \in 1..Len(tag) : tag[k] >= 245) => s_cmds[i].tag = <<>>

\* After a paste, a packet with a tag that is not utf-8 ended the session
C23_Witness ==
    /\ Len(s_cmds) = 2
    /\ AckedPaste(s_cmds[1])
    /\ 2 \in UnknownCommands
    /\ s_cmds[2].ty.val = TyNotUtf8
    /\ s_cmds[2].tag = <<>>
    /\ s_pc = "failed"
    /\ repo # <<>>

\* Claim C24. Copy of a missing clip: when a copy arrives and the repository
\* holds no default clip for the identity, blocking_handle returns
\* Err(RepositoryError), sends no reply, the loop ends, nothing panics.
C24_CopyOfMissingClip ==
    \A i \in 1..Len(s_cmds) :
       (s_cmds[i].ty = Ok(TyCopy) /\ PastesBefore(i) = {})
       => /\ EndsWithErr(i, "RepositoryError")
          /\ repo = <<>>

\* A copy was the first command of the session
C24_Witness ==
    /\ Len(s_cmds) = 1
    /\ s_cmds[1].ty = Ok(TyCopy)
    /\ s_cmds[1].id # <<>>
    /\ s_res = Res("blocking_handle", "Err", "RepositoryError")

\* Claim C25. Clean termination: on a packet of type term the loop returns
\* Ok(()) without a reply and without touching the repository; blocking_handle
\* returns Ok(()) only when the last packet read was a term, and every other
\* exit is an Err.
C25_CleanTermination ==
    LET n == Len(s_cmds) IN
    /\ \A i \in 1..n :
          s_cmds[i].ty = Ok(TyTerm)
          => /\ i = n
             /\ s_cmds[i].reply = <<>> /\ s_cmds[i].wrote = <<>>
             /\ Len(Events("s", "write")) = 1 + (i - 1)
             /\ repo = RepoAfter(i - 1)
             /\ s_pc = "done"
             /\ s_res = Res("blocking_handle", "Ok", "")
    /\ s_pc = "done" => (n > 0 /\ s_cmds[n].ty = Ok(TyTerm))
    /\ (s_pc \in Ended /\ s_res.call = "blocking_handle" /\ s_pc # "done")
       => s_res.out = "Err"

\* Claim C27. Stable identity: the identity of every copy and paste of a
\* connection is the OpenSSH encoding of the RSA key received in its sshsyn
\* (algorithm and key, without the comment), the same for each command, and
\* the key is held through HandshakeAck and Secure.
ReceivedKey == SubSeq(PacketPayload(s_buf[1]).val, 1, Len(AlgSshRsa) + 2)
C27_StableIdentity ==
    /\ \A i \in 1..Len(s_cmds) :
          (s_cmds[i].ty.ok /\ s_cmds[i].ty.val \in {TyCopy, TyPaste})
          => s_cmds[i].id = <<ReceivedKey>>
    /\ s_state \in {"HandshakeAck", "Secure"}
       => /\ s_rsa_pub_key # <<>>
          /\ ServerId(s_rsa_pub_key[1]) = ReceivedKey
          /\ DOMAIN repo \subseteq {ReceivedKey}

\* Three commands under the identity of a key that was sent with a comment
C27_Witness ==
    /\ Len(s_cmds) = 3
    /\ PacketPayload(s_buf[1]).val = ToOpenssh(1) \o KeyComment
    /\ \A i \in 1..3 : s_cmds[i].id = <<ToOpenssh(1)>>
    /\ s_state = "Secure"


---------------------------------------------------------------------------
(* Request and reply ordering on a Secure connection *)

\* The secure reads and writes of one side, in the order they happened
SecEvents(side) == SelectSeq(log, LAMBDA e : e.side = side /\ e.sec)
\* The packets of the session the server wrote an answer for
Answered == SelectSeq(s_cmds, LAMBDA e : e.wrote # <<>>)
\* The acknowledgement blocking_handle writes for a command
AckOf(ty) == IF ty = TyCopy THEN TyCopyAck ELSE TyPasteAck

\* Claim C26. Strict request/reply ordering: the server writes exactly one
\* reply for every copy or paste it handled, before it reads the next packet
\* and in the order the commands arrived; the client's copy and paste each
\* send one command and then read one reply, so that a connection never has
\* two commands outstanding.
C26_RequestReplyOrdering ==
    LET s == SecEvents("s")
        c == SecEvents("c")
        replies == SelectSeq(s, LAMBDA e : e.op = "write")
    IN
    /\ \A i \in 1..Len(s) : s[i].op = "write" => i > 1 /\ s[i - 1].op = "read"
    /\ \A i \in 1..Len(s_cmds) :
          LET e == s_cmds[i] IN
          /\ (e.ty.ok /\ e.ty.val \in {TyCopy, TyPaste} /\ e.out = "Ok")
             => e.wrote # <<>>
          /\ e.wrote # <<>> => e.ty.ok /\ e.ty.val \in {TyCopy, TyPaste}
          /\ i < Len(s_cmds) => e.wrote # <<>> /\ e.wrote[1].ok
    /\ Len(replies) = Len(Answered)
    /\ \A k \in 1..Len(replies) : replies[k].ty = AckOf(Answered[k].ty.val)
    /\ \A i \in 1..Len(c) : c[i].op = IF i % 2 = 1 THEN "write" ELSE "read"
    /\ \A i \in 1..Len(c) : c[i].op = "write" => c[i].ty = IF i = 1 THEN TyPaste ELSE TyCopy

\* handle() of the client ran to its end: paste, pasteack, copy, copyack
C26_Witness ==
    /\ c_pc = "done"
    /\ Len(SecEvents("c")) = 4
    /\ Len(s_cmds) = 2
    /\ Len(Answered) = 2
    /\ Len(SelectSeq(SecEvents("s"), LAMBDA e : e.op = "write")) = 2

---------------------------------------------------------------------------
(* Key sizes *)

\* Claim C28. Minimum RSA key size: every key load, of a private key and of a
\* public key, rejects keys of fewer than 2048 bits, so that the client holds
\* no smaller private key and the server never is in HandshakeAck or Secure
\* with a peer key of fewer than 2048 bits.
C28_MinimumRsaKeySize ==
    /\ c_rsa_priv_key # <<>> => RsaBits(c_rsa_priv_key[1]) >= 2048
    /\ (s_state \in {"HandshakeAck", "Secure"} /\ s_rsa_pub_key # <<>>)
       => RsaBits(s_rsa_pub_key[1]) >= 2048

---------------------------------------------------------------------------
(* Properties of the repository, of sessions side by side and of main() *)

\* The patches among the first i - 1 calls of the repository made under id
\* for the default clip
PatchesBefore(i, id) ==
    {j \in 1..(i - 1) : /\ t_repo.calls[j].op = "patch"
                        /\ t_repo.calls[j].id = id
                        /\ t_repo.calls[j].clip \in {<<>>, <<"default">>}}

\* Claim C22. Isolation between identities: when two identities use the same
\* repository under the default clip, what a copy (get) of identity A returns
\* depends on A's own pastes (patches) only: the payload of A's latest paste,
\* or NotFound when A has pasted nothing, whatever another identity pasted.
C22_IdentityIsolation ==
    \A i \in 1..Len(t_repo.calls) :
       LET call == t_repo.calls[i]
           own == PatchesBefore(i, call.id)
       IN
       (call.op = "get" /\ call.clip \in {<<>>, <<"default">>})
       => call.ret = IF own = {} THEN Err("NotFound")
                     ELSE Ok(t_repo.calls[Latest(own)].payload)

\* Both identities pasted, B last and another payload; A's copy returns A's
C22_Witness ==
    /\ Len(t_repo.calls) = 3
    /\ t_repo.calls[1] = [op |-> "patch", id |-> ServerId(1), clip |-> <<>>,
                          payload |-> Xungoro, ret |-> Ok(<<>>)]
    /\ t_repo.calls[2] = [op |-> "patch", id |-> ServerId(2), clip |-> <<>>,
                          payload |-> Hi, ret |-> Ok(<<>>)]
    /\ t_repo.calls[3].op = "get" /\ t_repo.calls[3].id = ServerId(1)
    /\ t_repo.calls[3].clip = <<>>
    /\ t_repo.calls[3].ret = Ok(Xungoro)

\* The pastes acknowledged, in any session, under identity id before turn i
SharedPastesBefore(i, id) ==
    {j \in 1..(i - 1) : /\ t_sessions.turns[j].ty = Ok(TyPaste)
                        /\ t_sessions.turns[j].out = "Ok"
                        /\ t_sessions.turns[j].id = id}

\* Claim C30. Shared repository across connections: a payload stored by a
\* paste on one connection is returned by a later copy on another connection
\* with the same identity, and a copy returns NotFound or a value that a
\* completed paste of that identity stored.
C30_SharedRepository ==
    \A i \in 1..Len(t_sessions.turns) :
       LET turn == t_sessions.turns[i]
           stored == SharedPastesBefore(i, turn.id)
       IN
       turn.ty = Ok(TyCopy)
       => /\ stored # {}
             => /\ turn.reply # <<>>
                /\ PacketPayload(turn.reply[1])
                      = t_sessions.turns[Latest(stored)].payload
          /\ turn.reply = <<>> => turn.err = "RepositoryError"
          /\ turn.reply # <<>>
             => \E j \in stored :
                   PacketPayload(turn.reply[1]) = t_sessions.turns[j].payload

\* Claim C29. Per-connection fault isolation: every accepted connection gets
\* a worker of its own, and whatever a connection does, the server process
\* keeps running, the accept loop keeps accepting, and no other connection's
\* worker is ended by it.
C29_FaultIsolation ==
    /\ t_main.pc = "accepting"
    /\ Len(t_main.workers) = t_main.accepted
    /\ \A i \in DOMAIN t_main.workers : t_main.workers[i].pc # "killed"

---------------------------------------------------------------------------
(* The contract of the repository *)

\* The name a clip argument stands for in the contract
Named(clip) == IF clip = <<>> THEN "default" ELSE clip[1]
\* The patches among the first i - 1 calls made for identity id and a clip
\* argument that stands for the same name as clip
PatchesOf(i, id, clip) ==
    {j \in 1..(i - 1) : /\ t_repo.calls[j].op = "patch"
                        /\ t_repo.calls[j].id = id
                        /\ Named(t_repo.calls[j].clip) = Named(clip)}

\* Claim C34. Repository contract: get(id, clip) returns NotFound exactly when
\* no patch(id, clip, _) was applied, and otherwise the value of the most
\* recent patch(id, clip, v); an absent clip name is the name "default" in get
\* and in patch; patch always succeeds.
C34_RepositoryContract ==
    \A i \in 1..Len(t_repo.calls) :
       LET call == t_repo.calls[i]
           same == PatchesOf(i, call.id, call.clip)
       IN
       /\ call.op = "patch" => call.ret = Ok(<<>>)
       /\ call.op = "get"
          => /\ call.ret = Err("NotFound") <=> same = {}
             /\ same # {} => call.ret = Ok(t_repo.calls[Latest(same)].payload)

\* patch(A, None, xungoro), patch(A, Some("other"), hi), get(A, Some("default"))
C34_Witness ==
    /\ Len(t_repo.calls) = 3
    /\ t_repo.calls[1].op = "patch" /\ t_repo.calls[1].clip = <<>>
    /\ t_repo.calls[1].payload = Xungoro
    /\ t_repo.calls[2].op = "patch" /\ t_repo.calls[2].clip = <<"other">>
    /\ t_repo.calls[2].payload = Hi
    /\ t_repo.calls[3].op = "get" /\ t_repo.calls[3].clip = <<"default">>
    /\ \A j \in 1..3 : t_repo.calls[j].id = ServerId(1)
    /\ t_repo.calls[3].ret = Ok(Xungoro)

---------------------------------------------------------------------------
(* The frame of the session commands *)

\* The entries (identity, clip name) of a repository
Entries(r) == {x \in (DOMAIN r) \X {"default", "other"} : x[2] \in DOMAIN r[x[1]]}

\* Repository `after` is `before` with the payload stored at the default clip
\* of identity id, and every other entry as it was
StoredOnly(before, after, id, payload) ==
    /\ Entries(after) = Entries(before) \cup {<<id, "default">>}
    /\ after[id]["default"] = payload
    /\ \A x \in Entries(before) :
          x # <<id, "default">> => after[x[1]][x[2]] = before[x[1]][x[2]]

\* Claim C38. Frame of the session commands: only a successfully decoded paste
\* modifies the repository, and it changes exactly the entry (identity of the
\* connection, default clip); copy, term, unsupported commands and any command
\* that ends in an error leave the repository unchanged.
C38_SessionFrame ==
    \A i \in 1..Len(t_sessions.turns) :
       LET turn == t_sessions.turns[i] IN
       /\ turn.after # turn.before
          => /\ turn.ty = Ok(TyPaste) /\ turn.payload.ok
             /\ StoredOnly(turn.before, turn.after,
                           ServerId(t_sessions.of[turn.session].key),
                           turn.payload.val)
       /\ (turn.ty # Ok(TyPaste) \/ turn.out # "Ok") => turn.after = turn.before

\* Claim C38, amended: a paste that was decoded and stored keeps its entry
\* when the pasteack cannot be written; every command that ends in another
\* error leaves the repository unchanged.
C38_SessionFrameButFailedAck ==
    \A i \in 1..Len(t_sessions.turns) :
       LET turn == t_sessions.turns[i]
           paste == turn.ty = Ok(TyPaste) /\ turn.payload.ok
       IN
       /\ turn.after # turn.before
          => /\ paste
             /\ StoredOnly(turn.before, turn.after,
                           ServerId(t_sessions.of[turn.session].key),
                           turn.payload.val)
       /\ paste
          => /\ turn.reply # <<>>
             /\ turn.after[ServerId(t_sessions.of[turn.session].key)]["default"]
                   = turn.payload.val
             /\ turn.out = "Ok" \/ (turn.err = "IOError" /\ ~turn.wrote)
       /\ ~paste => turn.after = turn.before

\* In a session given a populated repository: a paste stored and acknowledged,
\* then a paste stored whose pasteack was not written; the other entries are
\* as they were
C38_Witness ==
    /\ Len(t_sessions.turns) = 2
    /\ t_sessions.turns[1].session = 1 /\ t_sessions.turns[2].session = 1
    /\ t_sessions.turns[1].before = PopulatedRepository
    /\ t_sessions.turns[1].payload = Ok(Xungoro) /\ t_sessions.turns[1].out = "Ok"
    /\ t_sessions.turns[2].payload = Ok(Hi) /\ t_sessions.turns[2].err = "IOError"
    /\ t_sessions.of[1].repo[ServerId(1)]["default"] = Hi
    /\ t_sessions.of[1].repo[ServerId(1)]["other"] = Hi
    /\ t_sessions.of[1].repo[ServerId(2)]["default"] = Hi

---------------------------------------------------------------------------
(* The session key reply *)

\* The packet parse_aes256_key was called with is an sshsynack whose payload
\* does not decrypt, or decrypts to a string that is not AES_256_SIZE long
MalformedKeyReply ==
    /\ c_res.call = "parse_aes256_key"
    /\ c_rsa_priv_key # <<>>
    /\ PacketTy(PacketFromBytes(c_buf)) = Ok(TySshSynAck)
    /\ PacketPayload(PacketFromBytes(c_buf)).ok
    /\ LET dec == DecryptPkcs1v15(c_rsa_priv_key[1],
                                  PacketPayload(PacketFromBytes(c_buf)).val)
       IN  ~dec.ok \/ Len(dec.val) # AES_256_SIZE

\* Claim C35. Malformed session-key reply: when the payload of the sshsynack
\* fails to decrypt or decrypts to a string that is not exactly 32 bytes long,
\* parse_aes256_key returns an error, and the client neither reaches Secure
\* nor panics.
C35_MalformedKeyReply ==
    MalformedKeyReply
    => /\ c_res.out = "Err"
       /\ c_state # "Secure"
       /\ c_pc # "panicked"

---------------------------------------------------------------------------
(* Keys and typestates *)

\* The messages of the expect(..) calls on Connection.aes_key and on the RSA key
KeyExpectations == {"no rsa key available", "no aes key available"}

\* Claim C36. Key-presence invariant of the typestate: a connection in
\* Handshake holds no key; a client connection in HandshakeAck or Secure holds
\* its RSA private key, a server connection in HandshakeAck or Secure the
\* peer's RSA public key; a connection in Secure holds a session key; so the
\* expectations on the keys never fail.
C36_KeyPresence ==
    /\ c_state = "Handshake" => c_aes_key = <<>> /\ c_rsa_priv_key = <<>>
    /\ s_state = "Handshake" => s_aes_key = <<>> /\ s_rsa_pub_key = <<>>
    /\ c_state \in {"HandshakeAck", "Secure"} => c_rsa_priv_key # <<>>
    /\ s_state \in {"HandshakeAck", "Secure"} => s_rsa_pub_key # <<>>
    /\ c_state = "Secure" => c_aes_key # <<>>
    /\ s_state = "Secure" => s_aes_key # <<>>
    /\ c_state \in {"Handshake", "HandshakeAck", "Secure"}
    /\ s_state \in {"Handshake", "HandshakeAck", "Secure"}
    /\ c_res.err \notin KeyExpectations
    /\ s_res.err \notin KeyExpectations

\* Both sides are Secure, hold their keys, and have used them for a command
C36_Witness ==
    /\ c_state = "Secure" /\ s_state = "Secure"
    /\ c_aes_key # <<>> /\ c_aes_key = s_aes_key
    /\ c_rsa_priv_key # <<>> /\ s_rsa_pub_key = c_rsa_priv_key
    /\ c_pc = "done"
    /\ Len(s_cmds) = 2

---------------------------------------------------------------------------
(* The end of a session whose peer is gone *)

\* The session loop runs and the peer has closed the connection
ServerWaitsOnClosed == s_state = "Secure" /\ s_pc = "running" /\ ClientSideClosed
\* The last socket call was a read of the session loop that returned Ok(0)
ReadEndOfStream ==
    /\ log # <<>>
    /\ log[Len(log)].side = "s" /\ log[Len(log)].op = "read" /\ log[Len(log)].sec
    /\ log[Len(log)].n = 0

\* Claim C33. Termination on peer disconnect: when the peer closes the
\* connection while the session loop waits for the next command (a client
\* that exits without sending term included), blocking_handle ends, it
\* returns when its read meets the end of the stream, and no repository
\* operation is performed for the connection any more.
C33_TerminationOnDisconnect ==
    /\ ServerWaitsOnClosed ~> (s_pc \in Ended)
    /\ [](ReadEndOfStream => /\ s_pc = "failed"
                             /\ s_res = Res("blocking_handle", "Err", "Aes"))
    /\ [][(ServerWaitsOnClosed /\ c2s = <<>>)
             => (repo' = repo /\ s_cmds' = s_cmds /\ s2c' = s2c)]_vars

\* The client of main.rs pasted, copied and exited without term; the read of
\* the session loop met the end of the stream and blocking_handle returned
C33_Witness ==
    /\ mode = "honest" /\ c_pc = "done"
    /\ Len(s_cmds) = 2
    /\ ReadEndOfStream
    /\ s_pc = "failed"

---------------------------------------------------------------------------
(* The session keys of several connections *)

\* The draws of OsRng made in gen_aes256_key of connection i
DrawsOf(i) == {j \in 1..Len(t_conns.draws) : t_conns.draws[j].conn = i}

---------------------------------------------------------------------------
(* What is written to the socket *)

\* The bytes a step appended to a stream
Written(before, after) ==
    IF Len(after) > Len(before) THEN SubSeq(after, Len(before) + 1, Len(after))
    ELSE <<>>
\* w is the beginning of bytes
BeginningOf(w, bytes) == Len(w) <= Len(bytes) /\ w = SubSeq(bytes, 1, Len(w))
\* w holds the 32 bytes of the AES key a in a row
HoldsRawKey(w, a) ==
    \E i \in 1..(Len(w) - AES_256_SIZE + 1) :
       /\ w[i] = a
       /\ i = 1 \/ w[i - 1] # a
       /\ \A j \in 1..(AES_256_SIZE - 1) : w[i + j] = a
\* w is the beginning of a secure unit: a nonce, then ciphertext
BeginningOfUnit(w) ==
    /\ Len(w) <= SEC_UNIT_SIZE
    /\ \A i \in 1..Len(w) : IF i <= NONCE_SIZE THEN ~IsSym(w[i]) ELSE IsSym(w[i])

\* Claim C31. Key confidentiality on the wire: in cleartext framing the client
\* writes sshsyn with its public key and nothing else, and the server writes
\* sshsynack whose payload is the session key encrypted under the RSA public
\* key received in sshsyn; everything else either side writes is a secure
\* unit; the raw session key is never written to the stream.
C31_KeyConfidentiality ==
    [][/\ ClientRuns
          => LET w == Written(c2s, c2s') IN
             w # <<>>
             => /\ \A a \in AesKeyIds : ~HoldsRawKey(w, a)
                /\ IF c_state = "Handshake"
                   THEN /\ c_rsa_priv_key' # <<>>
                        /\ BeginningOf(w, PacketNew(TySshSyn,
                                                    ToOpenssh(c_rsa_priv_key'[1])))
                   ELSE c_state = "Secure" /\ BeginningOfUnit(w)
       /\ ServerRuns
          => LET w == Written(s2c, s2c') IN
             w # <<>>
             => /\ \A a \in AesKeyIds : ~HoldsRawKey(w, a)
                /\ IF s_state = "HandshakeAck"
                   THEN /\ s_aes_key' # <<>> /\ s_rsa_pub_key # <<>>
                        /\ BeginningOf(w, PacketNew(TySshSynAck,
                               EncryptPkcs1v15(s_rsa_pub_key[1],
                                               AesAsBytes(s_aes_key'[1])).val))
                        /\ Len(w) = PACKET_SIZE
                           => DecryptPkcs1v15(s_rsa_pub_key[1],
                                  PacketPayload(PacketFromBytes(w)).val)
                              = Ok(AesAsBytes(s_aes_key'[1]))
                   ELSE s_state = "Secure" /\ BeginningOfUnit(w)
      ]_vars

\* A session key went out in sshsynack and both sides went on to a command
C31_Witness ==
    /\ mode = "honest" /\ c_pc = "done" /\ s_aes_key # <<>>
    /\ \E i \in 1..Len(log) : log[i].side = "s" /\ log[i].op = "write" /\ log[i].sec

---------------------------------------------------------------------------
(* The replies the client accepts *)

\* The socket calls of the client in the Secure typestate
ClientSecCalls(h, op) ==
    Cardinality({i \in 1..Len(h) : h[i].side = "c" /\ h[i].op = op /\ h[i].sec})

\* The step in which a call of the client reads a whole reply whose type can
\* be read; Checked(call, ack, ty, pl) is what the claim says of the step
ReplyRead(Checked(_, _, _, _)) ==
    (/\ ClientRuns /\ c_pc \in {"paste_read", "copy_read"} /\ c_aes_key # <<>>
     /\ Len(s2c) = SEC_UNIT_SIZE /\ s2c' = <<>>)
    => LET got == SecDecode(c_aes_key[1], s2c)
           ty == PacketTy(got.packet)
           pl == PacketPayload(got.packet)
           call == IF c_pc = "paste_read" THEN "paste" ELSE "copy"
           ack == IF c_pc = "paste_read" THEN TyPasteAck ELSE TyCopyAck
       IN
       (got.out = "Ok" /\ ty.ok)
       => /\ c_pc' \notin Ended => ty.val = ack
          /\ (call = "copy" /\ c_pc' \notin Ended) => (pl.ok /\ c_clip' = <<pl.val>>)
          /\ ty.val # ack => Checked(call, ack, ty.val, pl)
          /\ ClientSecCalls(log', "write") = (IF call = "paste" THEN 1 ELSE 2)
          /\ ClientSecCalls(log', "read") = (IF call = "paste" THEN 1 ELSE 2)

---------------------------------------------------------------------------
(* A paste longer than the payload section *)

\* The server wrote a pasteack
PasteAcked ==
    \E i \in 1..Len(log) :
       log[i].side = "s" /\ log[i].op = "write" /\ log[i].ty = TyPasteAck
\* The client's paste returned Ok(()): handle() went on to copy
PasteReturnedOk == c_pc \in {"copy", "copy_read", "done"} \/ c_res.call = "copy"

\* Claim C37. Oversized paste is rejected end to end: when the client calls
\* paste with a payload longer than the 996 bytes of the payload section, of
\* any such length, the server stores nothing (the repository is unchanged),
\* sends no pasteack, its session ends with an error, and the client's paste
\* does not return Ok; no truncated or partial payload is ever stored.
C37_OversizedPasteRejected ==
    (mode = "honest" /\ PasteLen(c_paste) > SECTION_PAYLOAD_SIZE)
    => /\ repo = InMemoryRepositoryDefault
       /\ ~PasteAcked
       /\ ~PasteReturnedOk
       /\ s_cmds # <<>> => s_pc = "failed"

=========================================================================
